---- MODULE Spec2Model ----
(***************************************************************************)
(* Model of the credential lifecycle engine of bmw-cardata: the            *)
(* Authenticator (GetSession, refreshSession, getStoredSession,            *)
(* NewSession), the AuthClient primitives that back it                     *)
(* (InitiateAuthenticationSession, PollAuthToken, RefreshToken,            *)
(* parseOauthTokenResponse, ignoreFlowNotCompleted) and the two session    *)
(* stores (InMemorySessionStore, FileSessionStore).                        *)
(*                                                                         *)
(* Time is a clock of whole seconds.  Every call the Authenticator makes   *)
(* to a collaborator (store, auth client, prompt callback) is appended,    *)
(* with its arguments and its result, to the call trace `log`, the way the *)
(* counting mocks of the test-suite record them.                           *)
(*                                                                         *)
(* The second part models the event stream of the Client: the subscription *)
(* registry (Subscribe, Unsubscribe), the atomically swapped streaming     *)
(* manager (StartEventStream, StopEventStream, connect), the connection of *)
(* the MQTT library and the dispatch of inbound messages.  Callers run as  *)
(* threads whose steps interleave at the atomic operations of the code.    *)
(* Connection attempts (buildPahoConnectPacket, handlePahoConnectionUp)     *)
(* and runs of the publish handler are recorded by the step that makes     *)
(* them; StreamedDataValue.UnmarshalJSON is modelled on the JSON value     *)
(* types, and FileSessionStore on a file shared with another instance.     *)
(*                                                                         *)
(* Further specifications cover Client.DeleteContainer on the answers of   *)
(* the container endpoint, connect packets built from sessions of every    *)
(* kind (expired, without identity token), messages whose vehicle id is a  *)
(* wildcard key, and two goroutines that call GetSession on one            *)
(* Authenticator.                                                          *)
(***************************************************************************)
EXTENDS Integers, Sequences, FiniteSets, Bags, TLC

VARIABLES
    clientID,     \* Authenticator.ClientID, the configured client id string
    storeKind,    \* which SessionStore is configured: "none", "memory", "file"
    cache,        \* the store's session field (InMemorySessionStore / FileSessionStore)
    file,         \* content of the file at FileSessionStore.Path
    now,          \* time.Now(), in seconds
    pc,           \* position of the caller: "idle", "NewSession", "polling", "returned"
    op,           \* entry point of the call in progress or last returned
    calls,        \* number of GetSession / NewSession calls started
    authSession,  \* NewSession's authSession
    expiresAt,    \* NewSession's expiresAt
    delay,        \* NewSession's delay
    result,       \* what the last call returned: [session, err]
    log           \* calls made to collaborators during the current call

VARIABLES
    subscriptions, \* Client.subscriptions, the registry: nil until the first registerCallback
    issued,        \* the Subscriptions built so far, in the order of their uuid.New()
    streaming,     \* Client.streaming, the installed manager; NilManager when none
    managers,      \* the streamingManager objects built so far
    threads,       \* the callers of the Client: position, locals and returned values;
                   \* in SharedSpec the locals of the goroutine that is not running
    dispatch,      \* the run of handlePahoPublishReceived made by the last step, if any
    attempt,       \* the connection attempt made by the last step, if any
    running        \* callbacks and publish handlers that were started and have not returned

authVars == <<clientID, storeKind, cache, file, now, pc, op, calls,
              authSession, expiresAt, delay, result, log>>

streamVars == <<subscriptions, issued, streaming, managers, threads, dispatch,
                attempt, running>>

vars == <<clientID, storeKind, cache, file, now, pc, op, calls,
          authSession, expiresAt, delay, result, log,
          subscriptions, issued, streaming, managers, threads, dispatch,
          attempt, running>>

----------------------------------------------------------------------------
(* Bounds of the model *)

MaxCalls == 1          \* GetSession / NewSession calls per behaviour
MaxTime == 10          \* latest time at which the idle clock still advances
MaxExpiresIn == 3      \* largest device-code validity the server answers
MaxObjects == 3        \* Subscriptions and streamingManagers built per behaviour
MaxStoreCalls == 4     \* Get and Save calls made on one session file per behaviour
MaxRequests == 2       \* container API calls made on one Client per behaviour

(* Program constants *)

ExpiryMargin == 10     \* IsExpired: time.Now().Add(10 * time.Second)
DefaultDelay == 10     \* NewSession: delay = 10 when Interval is 0
StatusOK == 200
StatusNoContent == 204
StatusBadRequest == 400
StatusForbidden == 403

----------------------------------------------------------------------------
(* Values *)

NilSession == [kind |-> "nil"]
NilAuthSession == [kind |-> "nil"]
NoErr == [kind |-> "nil"]

\* time.Time{} : the zero time lies before every instant of the model
ZeroTime == 0 - 1

\* uuid.UUID values; "u0" is uuid.Nil
UUIDs == {"u1", "u2"}

\* A client id string is the text form of a UUID, in canonical lower case or
\* in upper case, or a text that is not a UUID at all.
ClientIDStrings ==
    [uuid : {"u1"}, form : {"lower", "upper", "invalid"}]

\* strings.ToLower on a client id string
ToLower(s) == IF s.form = "upper" THEN [s EXCEPT !.form = "lower"] ELSE s

\* uuid.UUID.String(): the canonical lower-case form
UUIDString(u) == [uuid |-> u, form |-> "lower"]

\* uuid.Parse accepts both letter cases
uuidParse(s) ==
    IF s.form = "invalid"
    THEN [uuid |-> "u0", err |-> [kind |-> "invalid UUID"]]
    ELSE [uuid |-> s.uuid, err |-> NoErr]

\* the HTTP status of an answer; NoStatus when the transport gave no answer
NoStatus == 0
StatusOf(resp) == IF resp.kind = "transport" THEN NoStatus ELSE resp.status

\* the status answered to a request made for client id string cid; no request
\* is sent when cid does not parse
RequestStatus(cid, resp) ==
    IF uuidParse(cid).err # NoErr THEN NoStatus ELSE StatusOf(resp)

Session(cid, acc, ref, exp) ==
    [kind |-> "session", clientID |-> cid, accessToken |-> acc,
     refreshToken |-> ref, expiresAt |-> exp, gcid |-> "g", idToken |-> "id"]

\* what json.Unmarshal("null", &session) leaves: the zero AuthenticatedSession
ZeroSession ==
    [kind |-> "session", clientID |-> "u0", accessToken |-> "",
     refreshToken |-> "", expiresAt |-> ZeroTime, gcid |-> "", idToken |-> ""]

\* sessions a store may hold when the Authenticator is constructed
StoredSessions ==
    { Session("u1", "acc0", "ref0", e) : e \in {5, 10, 30} }
    \cup {Session("u2", "acc0", "ref0", 30)}

\* auth.AuthError
AuthError(status, code, desc) ==
    [kind |-> "AuthError", status |-> status, code |-> code, desc |-> desc]

----------------------------------------------------------------------------
(* HTTP responses of the authorization server, as the inputs of the model *)

\* bodies of the token endpoint
TokenBodies(tag, lifetimes) ==
    { [ok |-> TRUE, accessToken |-> "acc-" \o tag, refreshToken |-> "ref-" \o tag,
       expiresIn |-> e] : e \in lifetimes }
ErrorBodies(tag) ==
    { [ok |-> TRUE, error |-> c, desc |-> tag] :
        c \in {"authorization_pending", "access_denied"} }
Undecodable(tag) == [ok |-> FALSE, raw |-> tag]

\* (resp, err) pairs returned by the generated HTTP client for the token endpoint
TokenResponses(tag, lifetimes, statuses) ==
    {[kind |-> "transport", err |-> [kind |-> "transport", desc |-> tag]]}
    \cup { [kind |-> "http", status |-> StatusOK, body |-> b] :
             b \in TokenBodies(tag, lifetimes) \cup {Undecodable(tag)} }
    \cup { [kind |-> "http", status |-> s, body |-> b] :
             s \in statuses, b \in ErrorBodies(tag) \cup {Undecodable(tag)} }

PollResponses == TokenResponses("poll", {8, 15}, {StatusBadRequest, StatusForbidden})
RefreshResponses == TokenResponses("refresh", {15}, {StatusBadRequest})

\* outcomes of the device-code endpoint
DeviceCodeBodies ==
    { [userCode |-> "U" \o n, verificationURI |-> "V" \o n,
       verificationURIComplete |-> "VC" \o n, expiresIn |-> e, interval |-> i] :
        n \in {"1"}, e \in {0, MaxExpiresIn}, i \in {0, 2} }

DeviceCodeResponses ==
    {[kind |-> "transport", err |-> [kind |-> "transport", desc |-> "initiate"]]}
    \cup { [kind |-> "http", status |-> StatusOK, body |-> b] : b \in DeviceCodeBodies }
    \cup {[kind |-> "http", status |-> StatusBadRequest,
           body |-> [error |-> "invalid_client", desc |-> "initiate"]]}
    \cup {[kind |-> "http", status |-> 500, body |-> [ok |-> FALSE]]}

----------------------------------------------------------------------------
(* AuthenticatedSession and the AuthClient primitives *)

\* IsExpired with "not before" in place of "after": expired at the margin itself
IsExpired_AtMargin(s, t) ==
    IF s = NilSession THEN TRUE ELSE t + ExpiryMargin >= s.expiresAt

\* IsExpired without the margin
IsExpired_NoMargin(s, t) ==
    IF s = NilSession THEN TRUE ELSE t > s.expiresAt

\* AuthenticatedSession.IsExpired at time t
IsExpired(s, t) ==
    IF s = NilSession THEN TRUE ELSE t + ExpiryMargin > s.expiresAt

\* the comparison with the session's id on both sides
ClientIDMatches_SelfCompare(s, cid) ==
    ToLower(UUIDString(s.clientID)) = ToLower(UUIDString(s.clientID))

\* the client id comparison of GetSession
ClientIDMatches(s, cid) == ToLower(UUIDString(s.clientID)) = ToLower(cid)

\* AuthClient.parseOauthTokenResponse at time t
parseOauthTokenResponse(parsedClientID, resp, t) ==
    IF resp.kind = "transport"
    THEN [session |-> NilSession, err |-> resp.err]
    ELSE IF resp.status = StatusOK
    THEN IF ~resp.body.ok
         THEN [session |-> NilSession,
               err |-> [kind |-> "decode", desc |-> resp.body.raw]]
         ELSE [session |-> Session(parsedClientID, resp.body.accessToken,
                                   resp.body.refreshToken, t + resp.body.expiresIn),
               err |-> NoErr]
    ELSE IF ~resp.body.ok
         \* `return nil, err` with the outer err, which is nil here
         THEN [session |-> NilSession, err |-> NoErr]
         ELSE [session |-> NilSession,
               err |-> AuthError(resp.status, resp.body.error, resp.body.desc)]

\* AuthClient.PollAuthToken
PollAuthToken(as, resp, t) == parseOauthTokenResponse(as.clientID, resp, t)

\* AuthClient.RefreshToken
RefreshToken(cid, refreshToken, resp, t) ==
    LET p == uuidParse(cid) IN
    IF p.err # NoErr
    THEN [session |-> NilSession, err |-> p.err]
    ELSE parseOauthTokenResponse(p.uuid, resp, t)

\* AuthClient.InitiateAuthenticationSession
InitiateAuthenticationSession(cid, resp) ==
    LET p == uuidParse(cid) IN
    IF p.err # NoErr
    THEN [session |-> NilAuthSession, err |-> p.err]
    ELSE IF resp.kind = "transport"
    THEN [session |-> NilAuthSession, err |-> resp.err]
    ELSE IF resp.status = StatusBadRequest
    THEN [session |-> NilAuthSession,
          err |-> AuthError(resp.status, resp.body.error, resp.body.desc)]
    ELSE IF resp.status = StatusOK
    THEN [session |-> [kind |-> "authSession", clientID |-> p.uuid,
                       userCode |-> resp.body.userCode,
                       verificationURI |-> resp.body.verificationURI,
                       verificationURIComplete |-> resp.body.verificationURIComplete,
                       expiresIn |-> resp.body.expiresIn,
                       interval |-> resp.body.interval],
          err |-> NoErr]
    ELSE [session |-> NilAuthSession, err |-> [kind |-> "unexpected response"]]

\* ignoreFlowNotCompleted
ignoreFlowNotCompleted(err) ==
    IF err = NoErr THEN NoErr
    ELSE IF err.kind = "AuthError" /\ err.status = StatusForbidden THEN NoErr
    ELSE err

----------------------------------------------------------------------------
(* Session stores *)

\* FileSessionStore.Get that reads the file at every call
StoreGet_AlwaysReads(kind, c, f, io) ==
    IF kind = "memory" THEN [session |-> c, err |-> NoErr, cache |-> c]
    ELSE IF io = "fail" \/ f.kind = "absent"
    THEN [session |-> NilSession, err |-> [kind |-> "io", desc |-> "read"], cache |-> c]
    ELSE IF f.kind = "garbage"
    THEN [session |-> NilSession, err |-> [kind |-> "unmarshal"], cache |-> c]
    ELSE LET s == IF f.value = NilSession THEN ZeroSession ELSE f.value
         IN [session |-> s, err |-> NoErr, cache |-> s]

\* SessionStore.Get on the configured store; io is the outcome of os.ReadFile
StoreGet(kind, c, f, io) ==
    IF kind = "memory" THEN [session |-> c, err |-> NoErr, cache |-> c]
    ELSE IF c # NilSession THEN [session |-> c, err |-> NoErr, cache |-> c]
    ELSE IF io = "fail" \/ f.kind = "absent"
    THEN [session |-> NilSession, err |-> [kind |-> "io", desc |-> "read"], cache |-> c]
    ELSE IF f.kind = "garbage"
    THEN [session |-> NilSession, err |-> [kind |-> "unmarshal"], cache |-> c]
    ELSE LET s == IF f.value = NilSession THEN ZeroSession ELSE f.value
         IN [session |-> s, err |-> NoErr, cache |-> s]

\* SessionStore.Save on the configured store; io is the outcome of os.WriteFile
StoreSave(kind, c, f, s, io) ==
    IF kind = "memory" THEN [err |-> NoErr, cache |-> s, file |-> f]
    ELSE IF io = "ok"
    THEN [err |-> NoErr, cache |-> s, file |-> [kind |-> "json", value |-> s]]
    ELSE [err |-> [kind |-> "io", desc |-> "write"], cache |-> s, file |-> f]

ReadOutcomes == {"ok", "fail"}
WriteOutcomes == {"ok", "fail"}

\* Authenticator.getStoredSession
getStoredSession(io) ==
    IF storeKind # "none"
    THEN StoreGet(storeKind, cache, file, io)
    ELSE [session |-> NilSession, err |-> [kind |-> "session store not set"],
          cache |-> cache]

----------------------------------------------------------------------------
(* Event stream: values *)

AllVINs == "+"
AllTopics == "#"

\* vehicle keys a caller subscribes under, and vehicle ids of inbound messages
Keys == {"V1", AllVINs, AllTopics}
MessageVINs == {"V1", "V2"}

Threads == {"t1", "t2"}

\* a map with no entry, and the nil registry
EmptyMap == [k \in {} |-> {}]
NilRegistry == [alloc |-> FALSE, byVIN |-> EmptyMap]

\* A Go map is a reference: a manager's subscriptions field is nil or points
\* to the one map that registerCallback made for the Client.
NilMapRef == "nil"
RegistryRef == "registry"

NilManager == 0
NilSubscription == [kind |-> "nil"]
Subscription(id, vin) == [kind |-> "subscription", id |-> id, vin |-> vin]
NoArg == [kind |-> "none"]

\* a streamingManager built without the subscriptions of the Client
NewManager_NoSubscriptions(ref) ==
    [subscriptions |-> NilMapRef, cancelled |-> FALSE, connectionManager |-> FALSE,
     conn |-> "none", installed |-> FALSE, removed |-> FALSE, connectCalls |-> 0,
     stopCalls |-> 0]

\* a streamingManager as StartEventStream builds it, with the history of the
\* calls made on it
NewManager(ref) ==
    [subscriptions |-> ref,          \* the map its subscriptions field refers to
     cancelled |-> FALSE,            \* ctx is done
     connectionManager |-> FALSE,    \* connectionManager is not nil
     conn |-> "none",                \* transport: none, connecting, up, closed
     installed |-> FALSE,            \* was stored in Client.streaming
     removed |-> FALSE,              \* was swapped out of Client.streaming
     connectCalls |-> 0,             \* calls of connect()
     stopCalls |-> 0]                \* calls of stop() made by StopEventStream

\* a thread that is in no call of the Client; dropped are the keys its call
\* deleted from the registry
Idle ==
    [pc |-> "idle", call |-> "none", arg |-> NoArg, sub |-> NilSubscription,
     m |-> NilManager, cas |-> "none", ret |-> NilSubscription, err |-> NoErr,
     effects |-> <<>>, dropped |-> {}]

\* JSON values of a data point: a string, the booleans, an integer number, a
\* number with a fraction, null, an object and an array.  A number is its
\* integer part and the digits of its fraction
JSONNumber(int, frac) == [type |-> "number", int |-> int, frac |-> frac]
JSONValues ==
    {[type |-> "string", val |-> "a"],
     [type |-> "bool", val |-> TRUE], [type |-> "bool", val |-> FALSE],
     JSONNumber(42, 0), JSONNumber(2, 5),
     [type |-> "null"], [type |-> "object"], [type |-> "array"]}

\* a nil pointer field and a field that points to val
NilField == [set |-> FALSE]
FieldOf(val) == [set |-> TRUE, val |-> val]

\* the zero StreamedDataValue
ZeroDataValue == [String |-> NilField, Bool |-> NilField, Int |-> NilField, Float |-> NilField]

\* json.Unmarshal(data, &raw) with raw of type any: the Go value a JSON value
\* decodes to.  Every JSON number decodes to a float64
jsonUnmarshalAny(v) ==
    CASE v.type = "string" -> [gotype |-> "string", val |-> v.val]
      [] v.type = "bool" -> [gotype |-> "bool", val |-> v.val]
      [] v.type = "number" -> [gotype |-> "float64", val |-> [int |-> v.int, frac |-> v.frac]]
      [] v.type = "null" -> [gotype |-> "<nil>"]
      [] v.type = "object" -> [gotype |-> "map[string]interface {}"]
      [] v.type = "array" -> [gotype |-> "[]interface {}"]

\* StreamedDataValue.UnmarshalJSON on a zero value
UnmarshalJSON(v) ==
    LET raw == jsonUnmarshalAny(v) IN
    CASE raw.gotype = "string" ->
           [err |-> NoErr, value |-> [ZeroDataValue EXCEPT !.String = FieldOf(raw.val)]]
      [] raw.gotype = "bool" ->
           [err |-> NoErr, value |-> [ZeroDataValue EXCEPT !.Bool = FieldOf(raw.val)]]
      [] raw.gotype = "int64" ->
           [err |-> NoErr, value |-> [ZeroDataValue EXCEPT !.Int = FieldOf(raw.val)]]
      [] raw.gotype = "float64" ->
           [err |-> NoErr, value |-> [ZeroDataValue EXCEPT !.Float = FieldOf(raw.val)]]
      [] OTHER ->
           [err |-> [kind |-> "unsupported type", type |-> raw.gotype],
            value |-> ZeroDataValue]

\* no data point was decoded
NoData == [err |-> NoErr, value |-> ZeroDataValue]

\* the last step was no run of the publish handler
NoDispatch == [manager |-> NilManager]

\* no callback and no publish handler is running
NoneRunning == [callbacks |-> {}, handlers |-> {}]

\* no connect packet, no subscribe request
NoPacket == [kind |-> "nil"]
NoRequest == [kind |-> "none"]

\* the last step was no connection attempt
NoAttempt == [manager |-> NilManager]

\* the session the Authenticator holds, and the one it holds after a refresh:
\* one account, another identity token
StreamSession == Session("u1", "acc", "ref", 30)
RefreshedStreamSession == [Session("u1", "acc1", "ref1", 60) EXCEPT !.idToken = "id1"]

\* what AuthenticatorInterface.GetSession answers to the streaming manager
AuthenticatorResults ==
    {[session |-> StreamSession, err |-> NoErr],
     [session |-> RefreshedStreamSession, err |-> NoErr],
     [session |-> NilSession, err |-> [kind |-> "GetSession"]]}

\* what the broker answers to a subscribe or unsubscribe request
BrokerResults == {NoErr, [kind |-> "broker"]}

\* payloads of inbound messages: not JSON, or JSON of a StreamedMessage of
\* vehicle vin with one data point
Payload(vin, value) == [ok |-> TRUE, vin |-> vin, value |-> value]

\* payloads whose data point is a string
Payloads ==
    {[ok |-> FALSE]} \cup { Payload(v, [type |-> "string", val |-> "a"]) : v \in MessageVINs }

\* payloads of one vehicle with a data point of every JSON type
TypedPayloads == {[ok |-> FALSE]} \cup { Payload("V1", value) : value \in JSONValues }

\* fmt.Sprintf("%s/%s", session.Gcid, vin)
Topic(gcid, vin) == gcid \o "/" \o vin

----------------------------------------------------------------------------
(* Initial state: a constructed Authenticator and its store *)

Init ==
    /\ clientID \in ClientIDStrings
    /\ storeKind \in {"none", "memory", "file"}
    /\ \/ storeKind = "none" /\ cache = NilSession /\ file = [kind |-> "absent"]
       \/ storeKind = "memory" /\ cache \in {NilSession} \cup StoredSessions
                               /\ file = [kind |-> "absent"]
       \/ storeKind = "file" /\ cache = NilSession
            /\ file \in {[kind |-> "absent"], [kind |-> "garbage"],
                         [kind |-> "json", value |-> NilSession]}
                        \cup { [kind |-> "json", value |-> s] : s \in StoredSessions }
    /\ now = 0
    /\ pc = "idle"
    /\ op = "none"
    /\ calls = 0
    /\ authSession = NilAuthSession
    /\ expiresAt = 0
    /\ delay = 0
    /\ result = [session |-> NilSession, err |-> NoErr]
    /\ log = <<>>
    /\ subscriptions = NilRegistry
    /\ issued = <<>>
    /\ streaming = NilManager
    /\ managers = <<>>
    /\ threads = [t \in Threads |-> Idle]
    /\ dispatch = NoDispatch
    /\ attempt = NoAttempt
    /\ running = NoneRunning

----------------------------------------------------------------------------
(* Authenticator *)

Return(s, e) == [session |-> s, err |-> e]

\* refreshSession that returns the refreshed session without saving it
refreshSession_NoSave(c, f, session, resp, io) ==
    LET r == RefreshToken(clientID, session.refreshToken, resp, now)
        refreshEv == [ev |-> "RefreshToken", clientID |-> clientID,
                      refreshToken |-> session.refreshToken,
                      status |-> RequestStatus(clientID, resp),
                      session |-> r.session, err |-> r.err]
    IN  IF r.err # NoErr
        THEN [session |-> NilSession, err |-> r.err, cache |-> c, file |-> f,
              events |-> <<refreshEv>>]
        ELSE [session |-> r.session, err |-> NoErr, cache |-> c, file |-> f,
              events |-> <<refreshEv>>]

\* Authenticator.refreshSession, run against store state (c, f)
refreshSession(c, f, session, resp, io) ==
    LET r == RefreshToken(clientID, session.refreshToken, resp, now)
        refreshEv == [ev |-> "RefreshToken", clientID |-> clientID,
                      refreshToken |-> session.refreshToken,
                      status |-> RequestStatus(clientID, resp),
                      session |-> r.session, err |-> r.err]
        sv == StoreSave(storeKind, c, f, r.session, io)
        saveEv == [ev |-> "Save", session |-> r.session, err |-> sv.err]
    IN  IF r.err # NoErr
        THEN [session |-> NilSession, err |-> r.err, cache |-> c, file |-> f,
              events |-> <<refreshEv>>]
        ELSE IF sv.err # NoErr
        THEN [session |-> NilSession, err |-> sv.err, cache |-> sv.cache,
              file |-> sv.file, events |-> <<refreshEv, saveEv>>]
        ELSE [session |-> r.session, err |-> NoErr, cache |-> sv.cache,
              file |-> sv.file, events |-> <<refreshEv, saveEv>>]

\* GetSession that returns the error of a failed refresh
GetSessionOutcome_ReturnsRefreshError(ioRead, resp, ioWrite) ==
    LET g == getStoredSession(ioRead)
        getEv == [ev |-> "Get", session |-> g.session, err |-> g.err, at |-> now]
        rs == refreshSession(g.cache, file, g.session, resp, ioWrite)
        toNew == [next |-> "NewSession", cache |-> g.cache, file |-> file,
                  events |-> <<getEv>>, ret |-> Return(NilSession, NoErr)]
    IN  IF g.err # NoErr THEN toNew
        ELSE IF g.session # NilSession
        THEN IF ~ClientIDMatches(g.session, clientID) THEN toNew
             ELSE IF IsExpired(g.session, now)
             THEN IF rs.err # NoErr
                  THEN [next |-> "returned", cache |-> rs.cache, file |-> rs.file,
                        events |-> <<getEv>> \o rs.events,
                        ret |-> Return(NilSession, rs.err)]
                  ELSE [next |-> "returned", cache |-> rs.cache, file |-> rs.file,
                        events |-> <<getEv>> \o rs.events,
                        ret |-> Return(rs.session, NoErr)]
             ELSE [next |-> "returned", cache |-> g.cache, file |-> file,
                   events |-> <<getEv>>, ret |-> Return(g.session, NoErr)]
        ELSE toNew

\* GetSession that returns the error of a failed store read
GetSessionOutcome_ReturnsGetError(ioRead, resp, ioWrite) ==
    LET g == getStoredSession(ioRead)
        getEv == [ev |-> "Get", session |-> g.session, err |-> g.err, at |-> now]
        rs == refreshSession(g.cache, file, g.session, resp, ioWrite)
        toNew == [next |-> "NewSession", cache |-> g.cache, file |-> file,
                  events |-> <<getEv>>, ret |-> Return(NilSession, NoErr)]
    IN  IF g.err # NoErr
        THEN [next |-> "returned", cache |-> g.cache, file |-> file,
              events |-> <<getEv>>, ret |-> Return(NilSession, g.err)]
        ELSE IF g.session # NilSession
        THEN IF ~ClientIDMatches(g.session, clientID) THEN toNew
             ELSE IF IsExpired(g.session, now)
             THEN IF rs.err # NoErr
                  THEN [next |-> "NewSession", cache |-> rs.cache, file |-> rs.file,
                        events |-> <<getEv>> \o rs.events,
                        ret |-> Return(NilSession, NoErr)]
                  ELSE [next |-> "returned", cache |-> rs.cache, file |-> rs.file,
                        events |-> <<getEv>> \o rs.events,
                        ret |-> Return(rs.session, NoErr)]
             ELSE [next |-> "returned", cache |-> g.cache, file |-> file,
                   events |-> <<getEv>>, ret |-> Return(g.session, NoErr)]
        ELSE toNew

\* Authenticator.GetSession up to its return or its call of NewSession:
\* what it returns ("NewSession" when it hands over to NewSession), the
\* store it leaves and the calls it made
GetSessionOutcome(ioRead, resp, ioWrite) ==
    LET g == getStoredSession(ioRead)
        getEv == [ev |-> "Get", session |-> g.session, err |-> g.err, at |-> now]
        rs == refreshSession(g.cache, file, g.session, resp, ioWrite)
        toNew == [next |-> "NewSession", cache |-> g.cache, file |-> file,
                  events |-> <<getEv>>, ret |-> Return(NilSession, NoErr)]
    IN  IF g.err # NoErr THEN toNew
        ELSE IF g.session # NilSession
        THEN IF ~ClientIDMatches(g.session, clientID) THEN toNew
             ELSE IF IsExpired(g.session, now)
             THEN IF rs.err # NoErr
                  THEN [next |-> "NewSession", cache |-> rs.cache, file |-> rs.file,
                        events |-> <<getEv>> \o rs.events,
                        ret |-> Return(NilSession, NoErr)]
                  ELSE [next |-> "returned", cache |-> rs.cache, file |-> rs.file,
                        events |-> <<getEv>> \o rs.events,
                        ret |-> Return(rs.session, NoErr)]
             ELSE [next |-> "returned", cache |-> g.cache, file |-> file,
                   events |-> <<getEv>>, ret |-> Return(g.session, NoErr)]
        ELSE toNew

\* A caller invokes Authenticator.GetSession; ioRead and ioWrite are the
\* outcomes of the store's file operations, resp the answer to RefreshToken
GetSessionOn(ioRead, resp, ioWrite) ==
    /\ pc = "idle"
    /\ calls < MaxCalls
    /\ LET o == GetSessionOutcome(ioRead, resp, ioWrite) IN
           /\ pc' = o.next
           /\ cache' = o.cache
           /\ file' = o.file
           /\ log' = o.events
           /\ result' = o.ret
    /\ op' = "GetSession"
    /\ calls' = calls + 1
    /\ authSession' = NilAuthSession
    /\ expiresAt' = 0
    /\ delay' = 0
    /\ UNCHANGED <<clientID, storeKind, now>>
    /\ UNCHANGED streamVars

GetSession ==
    \E ioRead \in ReadOutcomes, resp \in RefreshResponses, ioWrite \in WriteOutcomes :
        GetSessionOn(ioRead, resp, ioWrite)

\* A caller invokes Authenticator.NewSession directly
NewSessionCall ==
    /\ pc = "idle"
    /\ calls < MaxCalls
    /\ pc' = "NewSession"
    /\ op' = "NewSession"
    /\ calls' = calls + 1
    /\ log' = <<>>
    /\ result' = Return(NilSession, NoErr)
    /\ authSession' = NilAuthSession
    /\ expiresAt' = 0
    /\ delay' = 0
    /\ UNCHANGED <<clientID, storeKind, cache, file, now>>
    /\ UNCHANGED streamVars

\* the delay that waits one second whenever the server gave an interval
Delay_OneSecond(interval) == IF interval = 0 THEN DefaultDelay ELSE 1

\* NewSession: delay is the server's interval, 10 when it gave none
Delay(interval) == IF interval = 0 THEN DefaultDelay ELSE interval

\* the prologue that prompts with the plain URI in place of the complete one
NewSessionPrologue_PlainURITwice(a) ==
    LET initEv == [ev |-> "InitiateAuthenticationSession", clientID |-> clientID,
                   session |-> a.session, err |-> a.err, at |-> now]
    IN  IF a.err # NoErr THEN <<initEv>>
        ELSE <<initEv,
               [ev |-> "PromptURI", uri |-> a.session.verificationURI,
                code |-> a.session.userCode,
                complete |-> a.session.verificationURI]>>

\* NewSession: the calls made from its entry up to the polling loop
NewSessionPrologue(a) ==
    LET initEv == [ev |-> "InitiateAuthenticationSession", clientID |-> clientID,
                   session |-> a.session, err |-> a.err, at |-> now]
    IN  IF a.err # NoErr THEN <<initEv>>
        ELSE <<initEv,
               [ev |-> "PromptURI", uri |-> a.session.verificationURI,
                code |-> a.session.userCode,
                complete |-> a.session.verificationURIComplete]>>

\* NewSession from its entry to the first evaluation of the loop condition
NewSessionInitiateOn(resp) ==
    /\ pc = "NewSession"
    /\ LET a == InitiateAuthenticationSession(clientID, resp) IN
           /\ log' = log \o NewSessionPrologue(a)
           /\ IF a.err # NoErr
              THEN /\ pc' = "returned"
                   /\ result' = Return(NilSession, a.err)
                   /\ UNCHANGED <<authSession, expiresAt, delay>>
              ELSE /\ pc' = "polling"
                   /\ authSession' = a.session
                   /\ expiresAt' = now + a.session.expiresIn
                   /\ delay' = Delay(a.session.interval)
                   /\ UNCHANGED result
    /\ UNCHANGED <<clientID, storeKind, cache, file, now, op, calls>>
    /\ UNCHANGED streamVars

NewSessionInitiate == \E resp \in DeviceCodeResponses : NewSessionInitiateOn(resp)

\* the loop condition with "not after" in place of "before"
LoopCondition_NotAfter(t, exp) == t <= exp

\* the loop condition of NewSession: time.Now().Before(expiresAt)
LoopCondition(t, exp) == t < exp

\* the loop pass that returns the polled session without saving it
NewSessionIteration_NoSave(resp, io) ==
    LET p == PollAuthToken(authSession, resp, now)
        pollEv == [ev |-> "PollAuthToken", authSession |-> authSession,
                   status |-> StatusOf(resp),
                   session |-> p.session, err |-> p.err, at |-> now]
        e == ignoreFlowNotCompleted(p.err)
        same == [cache |-> cache, file |-> file, wait |-> 0]
    IN  IF ~LoopCondition(now, expiresAt)
        THEN [next |-> "returned", events |-> <<>>,
              ret |-> Return(NilSession, [kind |-> "authentication session expired"])]
             @@ same
        ELSE IF e # NoErr
        THEN [next |-> "returned", events |-> <<pollEv>>, ret |-> Return(NilSession, e)]
             @@ same
        ELSE IF p.session # NilSession
        THEN [next |-> "returned", events |-> <<pollEv>>,
              ret |-> Return(p.session, NoErr)] @@ same
        ELSE [next |-> "polling", events |-> <<pollEv>>, ret |-> result,
              cache |-> cache, file |-> file, wait |-> delay]

\* One pass of NewSession's loop at time `now`: the condition, the poll, its
\* classification, the save and return, or the wait of one delay
NewSessionIteration(resp, io) ==
    LET p == PollAuthToken(authSession, resp, now)
        pollEv == [ev |-> "PollAuthToken", authSession |-> authSession,
                   status |-> StatusOf(resp),
                   session |-> p.session, err |-> p.err, at |-> now]
        e == ignoreFlowNotCompleted(p.err)
        sv == StoreSave(storeKind, cache, file, p.session, io)
        saveEv == [ev |-> "Save", session |-> p.session, err |-> sv.err]
        same == [cache |-> cache, file |-> file, wait |-> 0]
    IN  IF ~LoopCondition(now, expiresAt)
        THEN [next |-> "returned", events |-> <<>>,
              ret |-> Return(NilSession, [kind |-> "authentication session expired"])]
             @@ same
        ELSE IF e # NoErr
        THEN [next |-> "returned", events |-> <<pollEv>>, ret |-> Return(NilSession, e)]
             @@ same
        ELSE IF p.session # NilSession
        THEN IF storeKind # "none"
             THEN IF sv.err # NoErr
                  THEN [next |-> "returned", events |-> <<pollEv, saveEv>>,
                        ret |-> Return(NilSession, sv.err),
                        cache |-> sv.cache, file |-> sv.file, wait |-> 0]
                  ELSE [next |-> "returned", events |-> <<pollEv, saveEv>>,
                        ret |-> Return(p.session, NoErr),
                        cache |-> sv.cache, file |-> sv.file, wait |-> 0]
             ELSE [next |-> "returned", events |-> <<pollEv>>,
                   ret |-> Return(p.session, NoErr)] @@ same
        ELSE [next |-> "polling", events |-> <<pollEv>>, ret |-> result,
              cache |-> cache, file |-> file, wait |-> delay]

\* one pass of the loop; resp is the answer to PollAuthToken, io the outcome
\* of the store's write
NewSessionLoopOn(resp, io) ==
    /\ pc = "polling"
    /\ LET o == NewSessionIteration(resp, io) IN
           /\ pc' = o.next
           /\ log' = log \o o.events
           /\ result' = o.ret
           /\ cache' = o.cache
           /\ file' = o.file
           /\ now' = now + o.wait
    /\ UNCHANGED <<clientID, storeKind, op, calls, authSession, expiresAt, delay>>
    /\ UNCHANGED streamVars

NewSessionLoop ==
    \E resp \in PollResponses, io \in WriteOutcomes : NewSessionLoopOn(resp, io)

\* Time passes between two calls
TickSteps == {5}

Tick ==
    /\ pc = "idle"
    /\ \E d \in TickSteps :
         /\ now + d <= MaxTime
         /\ now' = now + d
    /\ UNCHANGED <<clientID, storeKind, cache, file, pc, op, calls,
                   authSession, expiresAt, delay, result, log>>
    /\ UNCHANGED streamVars

\* The caller takes the returned value; the next call starts a new trace
Resume ==
    /\ pc = "returned"
    /\ pc' = "idle"
    /\ op' = "none"
    /\ log' = <<>>
    /\ result' = Return(NilSession, NoErr)
    /\ authSession' = NilAuthSession
    /\ expiresAt' = 0
    /\ delay' = 0
    /\ UNCHANGED <<clientID, storeKind, cache, file, now, calls>>
    /\ UNCHANGED streamVars

Next ==
    \/ GetSession
    \/ NewSessionCall
    \/ NewSessionInitiate
    \/ NewSessionLoop
    \/ Tick
    \/ Resume

Spec == Init /\ [][Next]_vars

----------------------------------------------------------------------------
(* Two FileSessionStore instances on one path *)

\* the sessions the instances save: a session, a modified one, and nil
SavedSessions ==
    {Session("u1", "tok1", "ref1", 30), Session("u1", "tok2", "ref2", 30), NilSession}

\* an instance just built, with an empty cache, on a path where the file is
\* absent or was written by another instance
StoreInit ==
    /\ clientID = [uuid |-> "u1", form |-> "lower"]
    /\ storeKind = "file"
    /\ cache = NilSession
    /\ file \in {[kind |-> "absent"],
                  [kind |-> "json", value |-> Session("u1", "tok1", "ref1", 30)]}
    /\ now = 0
    /\ pc = "idle"
    /\ op = "none"
    /\ calls = 0
    /\ authSession = NilAuthSession
    /\ expiresAt = 0
    /\ delay = 0
    /\ result = [session |-> NilSession, err |-> NoErr]
    /\ log = <<>>
    /\ subscriptions = NilRegistry
    /\ issued = <<>>
    /\ streaming = NilManager
    /\ managers = <<>>
    /\ threads = [t \in Threads |-> Idle]
    /\ dispatch = NoDispatch
    /\ attempt = NoAttempt
    /\ running = NoneRunning

\* FileSessionStore.Get on the instance
FileGet ==
    /\ Len(log) < MaxStoreCalls
    /\ \E io \in ReadOutcomes :
         LET g == StoreGet(storeKind, cache, file, io) IN
           /\ cache' = g.cache
           /\ result' = [session |-> g.session, err |-> g.err]
           /\ log' = Append(log, [call |-> "Get", disk |-> file, io |-> io,
                                   session |-> g.session, err |-> g.err])
    /\ UNCHANGED <<clientID, storeKind, file, now, pc, op, calls,
                   authSession, expiresAt, delay>>
    /\ UNCHANGED streamVars

\* FileSessionStore.Save on the instance
FileSave ==
    /\ Len(log) < MaxStoreCalls
    /\ \E s \in SavedSessions, io \in WriteOutcomes :
         LET w == StoreSave(storeKind, cache, file, s, io) IN
           /\ cache' = w.cache
           /\ file' = w.file
           /\ result' = [session |-> s, err |-> w.err]
           /\ log' = Append(log, [call |-> "Save", disk |-> file, io |-> io,
                                   session |-> s, err |-> w.err])
    /\ UNCHANGED <<clientID, storeKind, now, pc, op, calls,
                   authSession, expiresAt, delay>>
    /\ UNCHANGED streamVars

\* FileSessionStore.Save on another instance with the same Path, whose cache
\* is its own: the instance sees the file it wrote
OtherInstanceSave ==
    /\ Len(log) < MaxStoreCalls
    /\ \E s \in SavedSessions \ {NilSession} :
         LET w == StoreSave(storeKind, NilSession, file, s, "ok") IN
           /\ file' = w.file
           /\ log' = Append(log, [call |-> "OtherSave", disk |-> file, io |-> "ok",
                                   session |-> s, err |-> w.err])
    /\ UNCHANGED <<clientID, storeKind, cache, now, pc, op, calls,
                   authSession, expiresAt, delay, result>>
    /\ UNCHANGED streamVars

StoreNext ==
    \/ FileGet
    \/ FileSave
    \/ OtherInstanceSave

StoreSpec == StoreInit /\ [][StoreNext]_vars

----------------------------------------------------------------------------
(* Reading the call trace *)

Indices(kind) == { i \in 1..Len(log) : log[i].ev = kind }
Count(kind) == Cardinality(Indices(kind))

\* the store read that opened the GetSession call in progress
StoredAtEntry == log[1]

InGetSession == op = "GetSession" /\ Len(log) >= 1
GetSessionReturned == op = "GetSession" /\ pc = "returned"

\* the store gave a session whose client id equals the configured one,
\* letter case apart
StoredSessionMatches ==
    /\ InGetSession
    /\ StoredAtEntry.err = NoErr
    /\ StoredAtEntry.session # NilSession
    /\ \E f \in {"lower", "upper"} :
         clientID = [uuid |-> StoredAtEntry.session.clientID, form |-> f]

\* the store gave a session of another client
StoredSessionOfOtherClient ==
    /\ InGetSession
    /\ StoredAtEntry.err = NoErr
    /\ StoredAtEntry.session # NilSession
    /\ \A f \in {"lower", "upper"} :
         clientID # [uuid |-> StoredAtEntry.session.clientID, form |-> f]

\* the stored session was still good for more than the margin / had run out
StoredNotExpired == StoredAtEntry.at + ExpiryMargin <= StoredAtEntry.session.expiresAt
StoredExpired == StoredAtEntry.at + ExpiryMargin > StoredAtEntry.session.expiresAt

\* the device flow of the call in progress obtained a session
LastPoll == log[CHOOSE i \in Indices("PollAuthToken") :
                  \A j \in Indices("PollAuthToken") : j <= i]
FlowObtainedSession ==
    /\ Indices("PollAuthToken") # {}
    /\ LastPoll.session # NilSession

\* GetSession ran NewSession and returned what NewSession returned
RanDeviceFlow ==
    /\ pc = "NewSession" \/ Count("InitiateAuthenticationSession") = 1
    /\ (pc = "returned" /\ result.err = NoErr)
          => /\ FlowObtainedSession
             /\ result.session = LastPoll.session

----------------------------------------------------------------------------
(* C1: when the store holds a session of the configured client that is not *)
(* expired, GetSession returns that session and calls nothing else: no     *)
(* InitiateAuthenticationSession, PollAuthToken, RefreshToken, prompt or   *)
(* Save; the store read is the only call of the trace.                     *)
C1_CachedSessionReturned ==
    (StoredSessionMatches /\ StoredNotExpired)
        => /\ pc = "returned"
           /\ result = Return(StoredAtEntry.session, NoErr)
           /\ log = <<StoredAtEntry>>

\* a session at the very edge of the margin, stored under the upper-case id
C1_Witness ==
    /\ GetSessionReturned
    /\ StoredSessionMatches
    /\ clientID.form = "upper"
    /\ StoredAtEntry.at + ExpiryMargin = StoredAtEntry.session.expiresAt
    /\ result.session = StoredAtEntry.session

----------------------------------------------------------------------------
(* C2 *)

RefreshSucceeded ==
    /\ StoredSessionMatches /\ StoredExpired
    /\ Len(log) >= 2
    /\ log[2].ev = "RefreshToken"
    /\ log[2].err = NoErr
    /\ log[2].session # NilSession

\* C2 as stated: when the stored session of the configured client is expired
\* and RefreshToken succeeds, GetSession makes one RefreshToken call, no
\* InitiateAuthenticationSession or PollAuthToken call, no prompt, saves the
\* refreshed session and returns it.
C2_RefreshedSessionReturned ==
    RefreshSucceeded
        => /\ pc = "returned"
           /\ Count("RefreshToken") = 1
           /\ Count("InitiateAuthenticationSession") = 0
           /\ Count("PollAuthToken") = 0
           /\ Count("PromptURI") = 0
           /\ result = Return(log[2].session, NoErr)
           /\ cache = log[2].session

\* C2 amended: the same, provided the store's Save of the refreshed session
\* succeeds; RefreshToken is called with the stored refresh token and the
\* configured client id, and Save with the refreshed session.  When that Save
\* fails, GetSession hands over to NewSession instead.
C2_RefreshedSessionReturnedIfSaved ==
    RefreshSucceeded
        => /\ log[2].clientID = clientID
           /\ log[2].refreshToken = StoredAtEntry.session.refreshToken
           /\ Len(log) >= 3
           /\ log[3].ev = "Save"
           /\ log[3].session = log[2].session
           /\ log[3].err = NoErr
                => /\ pc = "returned"
                   /\ Len(log) = 3
                   /\ result = Return(log[2].session, NoErr)
                   /\ cache = log[2].session
           /\ log[3].err # NoErr
                => /\ pc = "NewSession" \/ Count("InitiateAuthenticationSession") = 1
                   /\ Count("RefreshToken") = 1

C2_Witness ==
    /\ GetSessionReturned
    /\ RefreshSucceeded
    /\ Len(log) = 3
    /\ log[3].err = NoErr
    /\ result.session = log[2].session
    /\ result.session.accessToken = "acc-refresh"

----------------------------------------------------------------------------
(* C3: when the stored session of the configured client is expired and     *)
(* RefreshToken returns an error, GetSession never returns that error: it  *)
(* makes the one RefreshToken call, runs NewSession (exactly one           *)
(* InitiateAuthenticationSession call) and returns what NewSession returns;*)
(* a session it returns was produced by a PollAuthToken call of that flow. *)
RefreshFailed ==
    /\ StoredSessionMatches /\ StoredExpired
    /\ Len(log) >= 2
    /\ log[2].ev = "RefreshToken"
    /\ log[2].err # NoErr

----------------------------------------------------------------------------
----------------------------------------------------------------------------
(* C5: with no store configured, with a store whose Get fails, and with a  *)
(* store that holds no session, GetSession makes no RefreshToken call and  *)
(* runs NewSession.                                                        *)
NoStoredSession ==
    /\ InGetSession
    /\ \/ storeKind = "none"
       \/ StoredAtEntry.err # NoErr
       \/ StoredAtEntry.session = NilSession

C5_NoStoredSessionRunsDeviceFlow ==
    /\ (InGetSession /\ storeKind = "none") => StoredAtEntry.err # NoErr
    /\ NoStoredSession
        => /\ Count("RefreshToken") = 0
           /\ RanDeviceFlow

\* the read of the session file failed and the device flow gave a session
C5_Witness ==
    /\ GetSessionReturned
    /\ storeKind = "file"
    /\ StoredAtEntry.err # NoErr
    /\ result.err = NoErr
    /\ Count("InitiateAuthenticationSession") = 1

----------------------------------------------------------------------------
(* C6: GetSession returns a session and no error, or no session and an     *)
(* error; never neither.                                                   *)
C6_SessionOrError ==
    GetSessionReturned
        => \/ result.session # NilSession /\ result.err = NoErr
           \/ result.session = NilSession /\ result.err # NoErr

----------------------------------------------------------------------------
(* Reading the polls of the trace *)

\* the authorization-pending answer: status 403 with code authorization_pending
IsAuthorizationPending(e) ==
    /\ e.kind = "AuthError"
    /\ e.status = StatusForbidden
    /\ e.code = "authorization_pending"

\* the poll at position i made NewSession return its error
Aborted(i) ==
    /\ i = Len(log)
    /\ pc = "returned"
    /\ result = Return(NilSession, log[i].err)

(* C7: in the polling loop an authorization-pending answer is forgiven, a  *)
(* session ends the loop, and every other error makes NewSession return    *)
(* that error at once, with no further poll and no Save.                   *)
C7_PollClassification ==
    \A i \in Indices("PollAuthToken") :
        /\ (log[i].err # NoErr /\ IsAuthorizationPending(log[i].err))
              => ~Aborted(i)
        /\ log[i].session # NilSession
              => /\ pc = "returned"
                 /\ \A j \in Indices("PollAuthToken") : j <= i
        /\ (log[i].err # NoErr /\ ~IsAuthorizationPending(log[i].err))
              => Aborted(i)

(* C8: the only poll error NewSession forgives is status 403 with code     *)
(* authorization_pending.                                                  *)
C8_OnlyAuthorizationPendingForgiven ==
    \A i \in Indices("PollAuthToken") :
        (log[i].err # NoErr /\ ~Aborted(i)) => IsAuthorizationPending(log[i].err)

----------------------------------------------------------------------------
(* The device flow of the call in progress *)

\* NewSession has made its InitiateAuthenticationSession call
FlowStarted == Indices("InitiateAuthenticationSession") # {}
InitiateIndex == CHOOSE i \in Indices("InitiateAuthenticationSession") : TRUE
Initiate == log[InitiateIndex]
Initiated == FlowStarted /\ Initiate.err = NoErr

\* the instant the device code runs out: ExpiresIn seconds after it was issued
DeviceCodeDeadline == Initiate.at + Initiate.session.expiresIn

AllPollsPending ==
    \A i \in Indices("PollAuthToken") :
        log[i].err # NoErr /\ IsAuthorizationPending(log[i].err)

InNewSession == pc \in {"NewSession", "polling"}

\* a call in progress keeps running
LiveSpec ==
    Init /\ [][Next]_vars /\ WF_vars(NewSessionInitiate) /\ WF_vars(NewSessionLoop)

C9_ExpiryEndsPolling ==
    /\ Initiated
         => /\ \A i \in Indices("PollAuthToken") : log[i].at < DeviceCodeDeadline
            /\ Initiate.session.expiresIn = 0 => Count("PollAuthToken") = 0
    /\ (Initiated /\ pc = "returned" /\ AllPollsPending)
         => /\ result = Return(NilSession, [kind |-> "authentication session expired"])
            /\ now >= DeviceCodeDeadline
            /\ \A i \in Indices("Save") : i < InitiateIndex

(* C9: NewSession always returns; when every poll answers authorization   *)
(* pending it polls only before the device code's deadline (not at all     *)
(* when ExpiresIn is 0) and returns no session and the error               *)
(* 'authentication session expired', having saved nothing.                 *)
C9_NewSessionTerminates ==
    /\ []C9_ExpiryEndsPolling
    /\ InNewSession ~> (pc = "returned")

C9_Witness ==
    /\ pc = "returned"
    /\ Initiated
    /\ Count("PollAuthToken") >= 2
    /\ AllPollsPending
    /\ result.err = [kind |-> "authentication session expired"]

----------------------------------------------------------------------------
(* C10: a NewSession call prompts exactly once, right after a successful   *)
(* InitiateAuthenticationSession, with the verification URI, user code and *)
(* complete URI of its answer, and before every PollAuthToken call; after  *)
(* a failed InitiateAuthenticationSession it neither prompts nor polls.    *)
C10_PromptOnceBeforePolling ==
    /\ Count("InitiateAuthenticationSession") <= 1
    /\ ~FlowStarted => (Count("PromptURI") = 0 /\ Count("PollAuthToken") = 0)
    /\ (FlowStarted /\ Initiate.err # NoErr)
         => /\ Count("PromptURI") = 0
            /\ Count("PollAuthToken") = 0
            /\ pc = "returned"
    /\ Initiated
         => /\ Indices("PromptURI") = {InitiateIndex + 1}
            /\ log[InitiateIndex + 1].uri = Initiate.session.verificationURI
            /\ log[InitiateIndex + 1].code = Initiate.session.userCode
            /\ log[InitiateIndex + 1].complete = Initiate.session.verificationURIComplete
            /\ \A i \in Indices("PollAuthToken") : i > InitiateIndex + 1

C10_Witness ==
    /\ pc = "returned"
    /\ op = "NewSession"
    /\ Initiated
    /\ Count("PromptURI") = 1
    /\ Count("PollAuthToken") = 2
    /\ result.err = NoErr

----------------------------------------------------------------------------
(* C11 *)

\* the poll that ended the device flow of the call in progress with a session
PolledSession == LastPoll.session

\* what a Get on the configured store returns now, whatever the file read does
GetAfterwards == { StoreGet(storeKind, cache, file, io) : io \in ReadOutcomes }

\* C11 as stated: when a poll in NewSession returns a session, that session
\* is saved to the store if one is configured and is the value NewSession
\* returns, and a Get on the store afterwards returns it; with no store the
\* session is returned without error.
C11_PolledSessionSavedAndReturned ==
    FlowObtainedSession
        => /\ pc = "returned"
           /\ result = Return(PolledSession, NoErr)
           /\ storeKind # "none"
                => /\ log[Len(log)].ev = "Save"
                   /\ log[Len(log)].session = PolledSession
                   /\ \A g \in GetAfterwards :
                        g.session = PolledSession /\ g.err = NoErr

\* C11 amended: the polled session is handed to Save when a store is
\* configured; it is the value returned, without error, when no store is
\* configured or that Save succeeds; when Save fails NewSession returns no
\* session and the error of Save.  In both cases a Get on the store
\* afterwards returns the polled session.
C11_PolledSessionReturnedIfSaved ==
    FlowObtainedSession
        => /\ pc = "returned"
           /\ storeKind = "none"
                => /\ result = Return(PolledSession, NoErr)
                   /\ log[Len(log)] = LastPoll
           /\ storeKind # "none"
                => /\ log[Len(log)].ev = "Save"
                   /\ log[Len(log) - 1] = LastPoll
                   /\ log[Len(log)].session = PolledSession
                   /\ log[Len(log)].err = NoErr
                        => result = Return(PolledSession, NoErr)
                   /\ log[Len(log)].err # NoErr
                        => result = Return(NilSession, log[Len(log)].err)
                   /\ \A g \in GetAfterwards :
                        g.session = PolledSession /\ g.err = NoErr

\* a polled session written by the file store and returned
C11_Witness ==
    /\ pc = "returned"
    /\ FlowObtainedSession
    /\ storeKind = "file"
    /\ log[Len(log)].ev = "Save"
    /\ log[Len(log)].err = NoErr
    /\ result.session = PolledSession
    /\ file = [kind |-> "json", value |-> PolledSession]

----------------------------------------------------------------------------
(* C12: PollAuthToken and RefreshToken map an HTTP 200 answer to a session *)
(* and a nil error, and an answer with any other status to no session and  *)
(* an AuthError that carries that status; no answer with another status    *)
(* gives a nil error.                                                      *)
TokenCalls == Indices("PollAuthToken") \cup Indices("RefreshToken")

C12_TokenResponseMapping ==
    \A i \in TokenCalls :
        /\ log[i].status = StatusOK
              => log[i].session # NilSession /\ log[i].err = NoErr
        /\ log[i].status \notin {NoStatus, StatusOK}
              => /\ log[i].session = NilSession
                 /\ log[i].err # NoErr
                 /\ log[i].err.kind = "AuthError"
                 /\ log[i].err.status = log[i].status

----------------------------------------------------------------------------
(* C13 *)

\* C13 as stated: IsExpired is true exactly when now + 10 seconds is at or
\* after the expiry of the session, the instant now + 10 s = ExpiresAt
\* included, and true for a nil session.
C13_ExpiredAtOrAfterMargin ==
    /\ IsExpired(NilSession, now)
    /\ cache # NilSession
         => (IsExpired(cache, now) <=> now + ExpiryMargin >= cache.expiresAt)

\* C13 amended: IsExpired is true exactly when now + 10 seconds is after the
\* expiry of the session, false at the instant now + 10 s = ExpiresAt, and
\* true for a nil session; GetSession returns a stored session of its client
\* as it is up to that instant and refreshes it from then on.
C13_ExpiredAfterMargin ==
    /\ IsExpired(NilSession, now)
    /\ cache # NilSession
         => (IsExpired(cache, now) <=> now + ExpiryMargin > cache.expiresAt)
    /\ StoredSessionMatches
         => /\ StoredAtEntry.at + ExpiryMargin <= StoredAtEntry.session.expiresAt
                 => log = <<StoredAtEntry>> /\ pc = "returned"
            /\ StoredAtEntry.at + ExpiryMargin > StoredAtEntry.session.expiresAt
                 => Len(log) >= 2 /\ log[2].ev = "RefreshToken"

\* a session read from the file at the instant now + 10 s = ExpiresAt and
\* returned as it is
C13_Witness ==
    /\ GetSessionReturned
    /\ storeKind = "file"
    /\ StoredSessionMatches
    /\ now + ExpiryMargin = cache.expiresAt
    /\ ~IsExpired(cache, now)
    /\ log = <<StoredAtEntry>>
    /\ result.session = cache

----------------------------------------------------------------------------
(* Event stream: the subscription registry *)

\* the callbacks a map holds under key k; a callback is named by the id of
\* its subscription
Under(map, k) == IF k \in DOMAIN map THEN map[k] ELSE {}

\* Client.registerCallback
registerCallback(reg, sub) ==
    [alloc |-> TRUE,
     byVIN |-> [k \in DOMAIN reg.byVIN \cup {sub.vin} |->
                  IF k = sub.vin THEN Under(reg.byVIN, k) \cup {sub.id}
                  ELSE reg.byVIN[k]]]

\* unregisterCallback that leaves the callback in the map
unregisterCallback_KeepsCallback(reg, sub) == reg

\* unregisterCallback that drops the whole vehicle key
unregisterCallback_DropsKey(reg, sub) ==
    [reg EXCEPT !.byVIN = [k \in DOMAIN reg.byVIN \ {sub.vin} |-> reg.byVIN[k]]]

\* unregisterCallback that leaves a vehicle key without callbacks in the map
unregisterCallback_KeepsEmptyKey(reg, sub) ==
    IF sub.vin \notin DOMAIN reg.byVIN THEN reg
    ELSE [reg EXCEPT !.byVIN[sub.vin] = @ \ {sub.id}]

\* Client.unregisterCallback
unregisterCallback(reg, sub) ==
    IF sub.vin \notin DOMAIN reg.byVIN THEN reg
    ELSE LET rest == reg.byVIN[sub.vin] \ {sub.id} IN
         IF rest = {}
         THEN [reg EXCEPT !.byVIN = [k \in DOMAIN reg.byVIN \ {sub.vin} |-> reg.byVIN[k]]]
         ELSE [reg EXCEPT !.byVIN[sub.vin] = rest]

\* c.subscriptions read as a value: nil, or the reference to the registry map
RegistryValue(reg) == IF reg.alloc THEN RegistryRef ELSE NilMapRef

\* the content of the map a reference points to
Deref(ref) == IF ref = RegistryRef THEN subscriptions.byVIN ELSE EmptyMap

----------------------------------------------------------------------------
(* Event stream: the streaming manager *)

\* streamingManager.listSubscribedVINs
listSubscribedVINs(m) == DOMAIN Deref(managers[m].subscriptions)

\* getCallbacks that looks up the vehicle id of the message only
getCallbacks_OwnKeyOnly(m, vin) ==
    SetToBag(Under(Deref(managers[m].subscriptions), vin))

\* streamingManager.getCallbacks: the callbacks appended from the three
\* lookups, as a bag
getCallbacks(m, vin) ==
    LET snapshot == Deref(managers[m].subscriptions) IN
    SetToBag(Under(snapshot, vin))
        (+) SetToBag(Under(snapshot, AllVINs))
        (+) SetToBag(Under(snapshot, AllTopics))

\* updateSubscriptions that also asks the broker for the topics of the map it
\* is given
updateSubscriptions_SubscribesKeys(m, newRef, gs, br) ==
    IF m = NilManager
    THEN [err |-> NoErr, managers |-> managers, effects |-> <<>>]
    ELSE IF ~managers[m].connectionManager
    THEN [err |-> NoErr,
          managers |-> [managers EXCEPT ![m].subscriptions = newRef],
          effects |-> <<>>]
    ELSE IF gs.err # NoErr
    THEN [err |-> gs.err, managers |-> managers,
          effects |-> <<[call |-> "GetSession", err |-> gs.err]>>]
    ELSE [err |-> NoErr,
          managers |-> [managers EXCEPT ![m].subscriptions = newRef],
          effects |-> <<[call |-> "GetSession", err |-> gs.err],
                        [call |-> "Subscribe",
                         topics |-> { Topic(gs.session.gcid, vin) :
                                        vin \in DOMAIN Deref(newRef) },
                         err |-> br]>>]

\* streamingManager.updateSubscriptions on manager m with the map newRef;
\* gs is the answer of GetSession, br the broker's answer to Unsubscribe
updateSubscriptions(m, newRef, gs, br) ==
    IF m = NilManager
    THEN [err |-> NoErr, managers |-> managers, effects |-> <<>>]
    ELSE LET mgr == managers[m]
             gone == { vin \in DOMAIN Deref(mgr.subscriptions) :
                         vin \notin DOMAIN Deref(newRef) }
             topics == { Topic(gs.session.gcid, vin) : vin \in gone }
             getEv == [call |-> "GetSession", err |-> gs.err]
             unsubEv == [call |-> "Unsubscribe", topics |-> topics, err |-> br]
         IN  IF ~mgr.connectionManager
             THEN [err |-> NoErr,
                   managers |-> [managers EXCEPT ![m].subscriptions = newRef],
                   effects |-> <<>>]
             ELSE IF gs.err # NoErr
             THEN [err |-> gs.err, managers |-> managers, effects |-> <<getEv>>]
             ELSE IF gone = {}
             THEN [err |-> NoErr,
                   managers |-> [managers EXCEPT ![m].subscriptions = newRef],
                   effects |-> <<getEv>>]
             ELSE IF br # NoErr
             THEN [err |-> br, managers |-> managers, effects |-> <<getEv, unsubEv>>]
             ELSE [err |-> NoErr,
                   managers |-> [managers EXCEPT ![m].subscriptions = newRef],
                   effects |-> <<getEv, unsubEv>>]

----------------------------------------------------------------------------
(* Event stream: the calls of the Client, step by step *)

\* a thread that entered a call and stands at position p of it
InCall(call, arg, p, sub, m) ==
    [Idle EXCEPT !.pc = p, !.call = call, !.arg = arg, !.sub = sub, !.m = m]

\* a thread whose call returned
Returned(th, ret, err, effects) ==
    [th EXCEPT !.pc = "returned", !.ret = ret, !.err = err, !.effects = effects]

\* the subscriptions a caller holds: those a Subscribe call returned
Handles ==
    { Subscription(i, issued[i].vin) : i \in { j \in 1..Len(issued) : issued[j].handle } }

\* Subscribe that registers the callback before it looks at it
SubscribeEntry_RegistersFirst(reg, iss, vin, callback) ==
    IF callback = "nil"
    THEN [subscriptions |-> registerCallback(reg, Subscription(0, vin)), issued |-> iss,
          thread |-> Returned(InCall("Subscribe", [vin |-> vin, callback |-> callback],
                                     "idle", NilSubscription, NilManager),
                              NilSubscription, [kind |-> "callback must not be nil"], <<>>)]
    ELSE LET sub == Subscription(Len(iss) + 1, vin) IN
         [subscriptions |-> registerCallback(reg, sub),
          issued |-> Append(iss, [vin |-> vin, handle |-> FALSE, unsubscribed |-> FALSE]),
          thread |-> InCall("Subscribe", [vin |-> vin, callback |-> callback],
                            "Subscribe:update", sub, NilManager)]

\* Client.Subscribe from its entry to the return of registerCallback
SubscribeEntry(reg, iss, vin, callback) ==
    IF callback = "nil"
    THEN [subscriptions |-> reg, issued |-> iss,
          thread |-> Returned(InCall("Subscribe", [vin |-> vin, callback |-> callback],
                                     "idle", NilSubscription, NilManager),
                              NilSubscription, [kind |-> "callback must not be nil"], <<>>)]
    ELSE LET sub == Subscription(Len(iss) + 1, vin) IN
         [subscriptions |-> registerCallback(reg, sub),
          issued |-> Append(iss, [vin |-> vin, handle |-> FALSE, unsubscribed |-> FALSE]),
          thread |-> InCall("Subscribe", [vin |-> vin, callback |-> callback],
                            "Subscribe:update", sub, NilManager)]

SubscribeCall(t) ==
    /\ threads[t].pc = "idle"
    /\ \E vin \in Keys, callback \in {"nil", "func"} :
         /\ callback = "nil" \/ Len(issued) + Len(managers) < MaxObjects
         /\ LET o == SubscribeEntry(subscriptions, issued, vin, callback) IN
              /\ subscriptions' = o.subscriptions
              /\ issued' = o.issued
              /\ threads' = [threads EXCEPT ![t] = o.thread]
    /\ UNCHANGED <<streaming, managers>>
    /\ dispatch' = NoDispatch
    /\ attempt' = NoAttempt
    /\ UNCHANGED running
    /\ UNCHANGED authVars

\* Client.Subscribe: c.streaming.Load().updateSubscriptions and the return
SubscribeUpdate(t) ==
    /\ threads[t].pc = "Subscribe:update"
    /\ \E gs \in AuthenticatorResults, br \in BrokerResults :
         LET th == threads[t]
             u == updateSubscriptions(streaming, RegistryValue(subscriptions), gs, br)
         IN  /\ managers' = u.managers
             /\ IF u.err # NoErr
                THEN /\ threads' = [threads EXCEPT ![t] =
                                      Returned(th, NilSubscription, u.err, u.effects)]
                     /\ UNCHANGED issued
                ELSE /\ threads' = [threads EXCEPT ![t] =
                                      Returned(th, th.sub, NoErr, u.effects)]
                     /\ issued' = [issued EXCEPT ![th.sub.id].handle = TRUE]
    /\ UNCHANGED <<subscriptions, streaming>>
    /\ dispatch' = NoDispatch
    /\ attempt' = NoAttempt
    /\ UNCHANGED running
    /\ UNCHANGED authVars

\* Client.Unsubscribe from its entry to the return of unregisterCallback
UnsubscribeEntry(reg, subscription) ==
    IF subscription = NilSubscription
    THEN [subscriptions |-> reg,
          thread |-> Returned(InCall("Unsubscribe", subscription, "idle",
                                     subscription, NilManager),
                              NilSubscription, [kind |-> "subscription must not be nil"],
                              <<>>)]
    ELSE LET after == unregisterCallback(reg, subscription) IN
         [subscriptions |-> after,
          thread |-> [InCall("Unsubscribe", subscription, "Unsubscribe:update",
                             subscription, NilManager)
                         EXCEPT !.dropped = DOMAIN reg.byVIN \ DOMAIN after.byVIN]]

UnsubscribeCall(t) ==
    /\ threads[t].pc = "idle"
    /\ \E subscription \in {NilSubscription} \cup Handles :
         LET o == UnsubscribeEntry(subscriptions, subscription) IN
           /\ subscriptions' = o.subscriptions
           /\ threads' = [threads EXCEPT ![t] = o.thread]
    /\ UNCHANGED <<issued, streaming, managers>>
    /\ dispatch' = NoDispatch
    /\ attempt' = NoAttempt
    /\ UNCHANGED running
    /\ UNCHANGED authVars

\* Client.Unsubscribe: c.streaming.Load().updateSubscriptions and the return
UnsubscribeUpdate(t) ==
    /\ threads[t].pc = "Unsubscribe:update"
    /\ \E gs \in AuthenticatorResults, br \in BrokerResults :
         LET th == threads[t]
             u == updateSubscriptions(streaming, RegistryValue(subscriptions), gs, br)
         IN  /\ managers' = u.managers
             /\ threads' = [threads EXCEPT ![t] =
                              Returned(th, NilSubscription, u.err, u.effects)]
             /\ issued' = [issued EXCEPT ![th.sub.id].unsubscribed = TRUE]
    /\ UNCHANGED <<subscriptions, streaming>>
    /\ dispatch' = NoDispatch
    /\ attempt' = NoAttempt
    /\ UNCHANGED running
    /\ UNCHANGED authVars

\* atomic.Pointer.CompareAndSwap on a pointer that holds cur
CompareAndSwap(cur, old, new) ==
    IF cur = old THEN [swapped |-> TRUE, value |-> new]
    ELSE [swapped |-> FALSE, value |-> cur]

\* StartEventStream: the candidate is built from the fields of the Client
StartCall(t) ==
    /\ threads[t].pc = "idle"
    /\ Len(issued) + Len(managers) < MaxObjects
    /\ managers' = Append(managers, NewManager(RegistryValue(subscriptions)))
    /\ threads' = [threads EXCEPT ![t] =
                     InCall("StartEventStream", NoArg, "Start:cas", NilSubscription,
                            Len(managers) + 1)]
    /\ UNCHANGED <<subscriptions, issued, streaming>>
    /\ dispatch' = NoDispatch
    /\ attempt' = NoAttempt
    /\ UNCHANGED running
    /\ UNCHANGED authVars

\* the swap of StartEventStream as a plain store
StartSwapOutcome_Store(cur, candidate) == [swapped |-> TRUE, value |-> candidate]

\* StartEventStream: c.streaming.CompareAndSwap(nil, candidate)
StartSwapOutcome(cur, candidate) == CompareAndSwap(cur, NilManager, candidate)

\* StartEventStream: the swap; the loser stops its candidate and returns nil
StartSwap(t) ==
    /\ threads[t].pc = "Start:cas"
    /\ LET th == threads[t]
           o == StartSwapOutcome(streaming, th.m)
       IN  /\ streaming' = o.value
           /\ IF o.swapped
              THEN /\ managers' = [managers EXCEPT ![th.m].installed = TRUE]
                   /\ threads' = [threads EXCEPT ![t] =
                                    [th EXCEPT !.pc = "Start:connect", !.cas = "won"]]
              ELSE /\ managers' = [managers EXCEPT ![th.m].cancelled = TRUE]
                   /\ threads' = [threads EXCEPT ![t] =
                                    Returned([th EXCEPT !.cas = "lost"],
                                             NilSubscription, NoErr, <<>>)]
    /\ UNCHANGED <<subscriptions, issued>>
    /\ dispatch' = NoDispatch
    /\ attempt' = NoAttempt
    /\ UNCHANGED running
    /\ UNCHANGED authVars

\* what autopaho.NewConnection returns
NewConnectionResults == {NoErr, [kind |-> "NewConnection"]}

\* connect(): autopaho.NewConnection and m.connectionManager = cm
StartConnect(t) ==
    /\ threads[t].pc = "Start:connect"
    /\ \E nc \in NewConnectionResults :
         LET th == threads[t] IN
         IF nc # NoErr
         THEN /\ managers' = [managers EXCEPT ![th.m].connectCalls = @ + 1]
              /\ threads' = [threads EXCEPT ![t] = Returned(th, NilSubscription, nc, <<>>)]
         ELSE /\ managers' = [managers EXCEPT ![th.m].connectCalls = @ + 1,
                                              ![th.m].connectionManager = TRUE,
                                              ![th.m].conn = "connecting"]
              /\ threads' = [threads EXCEPT ![t] = [th EXCEPT !.pc = "Start:await"]]
    /\ UNCHANGED <<subscriptions, issued, streaming>>
    /\ dispatch' = NoDispatch
    /\ attempt' = NoAttempt
    /\ UNCHANGED running
    /\ UNCHANGED authVars

\* connect(): cm.AwaitConnection returns when the connection is up or the
\* lifetime is cancelled; on success the goroutine that disconnects at the
\* end of the lifetime is started
StartAwait(t) ==
    /\ threads[t].pc = "Start:await"
    /\ LET th == threads[t] IN
         \/ /\ managers[th.m].conn = "up"
            /\ threads' = [threads EXCEPT ![t] = Returned(th, NilSubscription, NoErr, <<>>)]
         \/ /\ managers[th.m].cancelled
            /\ threads' = [threads EXCEPT ![t] =
                             Returned(th, NilSubscription, [kind |-> "context canceled"], <<>>)]
    /\ UNCHANGED <<subscriptions, issued, streaming, managers>>
    /\ dispatch' = NoDispatch
    /\ attempt' = NoAttempt
    /\ UNCHANGED running
    /\ UNCHANGED authVars

\* StopEventStream: c.streaming.Load() and the return when it is nil
StopCall(t) ==
    /\ threads[t].pc = "idle"
    /\ threads' = [threads EXCEPT ![t] =
                     IF streaming = NilManager
                     THEN Returned(InCall("StopEventStream", NoArg, "idle",
                                          NilSubscription, NilManager),
                                   NilSubscription, NoErr, <<>>)
                     ELSE InCall("StopEventStream", NoArg, "Stop:cas",
                                 NilSubscription, streaming)]
    /\ UNCHANGED <<subscriptions, issued, streaming, managers>>
    /\ dispatch' = NoDispatch
    /\ attempt' = NoAttempt
    /\ UNCHANGED running
    /\ UNCHANGED authVars

\* the swap of StopEventStream as a plain store of nil
StopSwapOutcome_Store(cur, existing) == [swapped |-> TRUE, value |-> NilManager]

\* the swap of StopEventStream that leaves the manager installed
StopSwapOutcome_KeepsInstalled(cur, existing) == [swapped |-> TRUE, value |-> cur]

\* StopEventStream: c.streaming.CompareAndSwap(existing, nil)
StopSwapOutcome(cur, existing) == CompareAndSwap(cur, existing, NilManager)

StopSwap(t) ==
    /\ threads[t].pc = "Stop:cas"
    /\ LET th == threads[t]
           o == StopSwapOutcome(streaming, th.m)
       IN  /\ streaming' = o.value
           /\ IF o.swapped
              THEN /\ managers' = [managers EXCEPT ![th.m].removed = TRUE]
                   /\ threads' = [threads EXCEPT ![t] =
                                    [th EXCEPT !.pc = "Stop:stop", !.cas = "won"]]
              ELSE /\ UNCHANGED managers
                   /\ threads' = [threads EXCEPT ![t] =
                                    Returned([th EXCEPT !.cas = "lost"],
                                             NilSubscription, NoErr, <<>>)]
    /\ UNCHANGED <<subscriptions, issued>>
    /\ dispatch' = NoDispatch
    /\ attempt' = NoAttempt
    /\ UNCHANGED running
    /\ UNCHANGED authVars

\* StopEventStream: existing.stop(), the receive from existing.ctx.Done(),
\* which stop() has closed, and the return
StopCancel(t) ==
    /\ threads[t].pc = "Stop:stop"
    /\ LET th == threads[t] IN
         /\ managers' = [managers EXCEPT ![th.m].cancelled = TRUE,
                                         ![th.m].stopCalls = @ + 1]
         /\ threads' = [threads EXCEPT ![t] = Returned(th, NilSubscription, NoErr, <<>>)]
    /\ UNCHANGED <<subscriptions, issued, streaming>>
    /\ dispatch' = NoDispatch
    /\ attempt' = NoAttempt
    /\ UNCHANGED running
    /\ UNCHANGED authVars

\* the caller takes what its call returned
ThreadResume(t) ==
    /\ threads[t].pc = "returned"
    /\ threads' = [threads EXCEPT ![t] = Idle]
    /\ UNCHANGED <<subscriptions, issued, streaming, managers>>
    /\ dispatch' = NoDispatch
    /\ attempt' = NoAttempt
    /\ UNCHANGED running
    /\ UNCHANGED authVars

----------------------------------------------------------------------------
(* Event stream: the connection and the inbound messages *)

Managers == 1..Len(managers)

\* a 32-bit unsigned value as its two 16-bit halves: the low 32 bits of the
\* two's complement of x
Word32(x) == [hi |-> (x \div 2^16) % 2^16, lo |-> x % 2^16]

\* uint32(f) of a float64 holding the whole number x: the values the builds
\* give.  A negative value is one the type cannot hold, and its conversion is
\* implementation-dependent: the low 32 bits on amd64, zero on arm64
uint32(x) == IF x >= 0 THEN {Word32(x)} ELSE {Word32(x), Word32(0)}

\* the nil *string of a session issued without an identity token
NilIdToken == "<nil>"

\* the connect packet does not carry the session that GetSession answered
buildPahoConnectPacket_FirstSession(gs) ==
    {[packet |-> [kind |-> "connect", username |-> StreamSession.gcid,
                  password |-> StreamSession.idToken,
                  sessionExpiryInterval |-> Word32(StreamSession.expiresAt - now)],
      err |-> NoErr, panic |-> FALSE]}

\* streamingManager.buildPahoConnectPacket: the outcomes of one call; gs is
\* the answer of GetSession.  A nil session and a nil IdToken are
\* dereferenced, which panics; durations are whole seconds
buildPahoConnectPacket(gs) ==
    IF gs.err # NoErr
    THEN {[packet |-> NoPacket, err |-> gs.err, panic |-> FALSE]}
    ELSE IF gs.session = NilSession \/ gs.session.idToken = NilIdToken
    THEN {[packet |-> NoPacket, err |-> NoErr, panic |-> TRUE]}
    ELSE {[packet |-> [kind |-> "connect", username |-> gs.session.gcid,
                       password |-> gs.session.idToken,
                       sessionExpiryInterval |-> v],
           err |-> NoErr, panic |-> FALSE] :
            v \in uint32(gs.session.expiresAt - now)}

\* handlePahoConnectionUp that leaves the wildcard keys out of its request
handlePahoConnectionUp_VehiclesOnly(m, gs, br) ==
    IF gs.err # NoErr
    THEN NoRequest
    ELSE IF listSubscribedVINs(m) = {}
    THEN NoRequest
    ELSE [kind |-> "subscribe",
          topics |-> SetToBag({ Topic(gs.session.gcid, vin) :
                                  vin \in listSubscribedVINs(m) \ {AllVINs, AllTopics} }),
          err |-> br]

\* streamingManager.handlePahoConnectionUp: the subscribe request it sends;
\* gs is the answer of GetSession, br the broker's answer, which is printed
handlePahoConnectionUp(m, gs, br) ==
    IF gs.err # NoErr
    THEN NoRequest
    ELSE IF listSubscribedVINs(m) = {}
    THEN NoRequest
    ELSE [kind |-> "subscribe",
          topics |-> SetToBag({ Topic(gs.session.gcid, vin) : vin \in listSubscribedVINs(m) }),
          err |-> br]

\* A connection attempt of manager m whose connect packet is built: the
\* connection comes up and handlePahoConnectionUp runs.  gs and gsUp are the
\* answers of the two GetSession calls, br the broker's answer to the
\* subscribe request; what the broker holds is not part of the state
ConnectionUp(m, gs, gsUp, br) ==
    /\ managers[m].conn = "connecting"
    /\ ~managers[m].cancelled
    /\ \E b \in buildPahoConnectPacket(gs) :
         /\ b.err = NoErr
         /\ ~b.panic
         /\ managers' = [managers EXCEPT ![m].conn = "up"]
         /\ attempt' = [manager |-> m, getSession |-> <<gs, gsUp>>, packet |-> b.packet,
                        err |-> NoErr, up |-> TRUE, panic |-> FALSE,
                        subscribe |-> handlePahoConnectionUp(m, gsUp, br)]
    /\ UNCHANGED <<subscriptions, issued, streaming, threads, running>>
    /\ dispatch' = NoDispatch
    /\ UNCHANGED authVars

\* A connection attempt of manager m that ends when no connect packet is
\* built; the library tries again
ConnectFailure(m, gs) ==
    /\ managers[m].conn = "connecting"
    /\ ~managers[m].cancelled
    /\ \E b \in buildPahoConnectPacket(gs) :
         /\ b.err # NoErr
         /\ attempt' = [manager |-> m, getSession |-> <<gs>>, packet |-> b.packet,
                        err |-> b.err, up |-> FALSE, panic |-> FALSE,
                        subscribe |-> NoRequest]
    /\ UNCHANGED <<subscriptions, issued, streaming, managers, threads, running>>
    /\ dispatch' = NoDispatch
    /\ UNCHANGED authVars

\* A connection attempt of manager m in which buildPahoConnectPacket panics:
\* the panic is not recovered and ends the process, with every call in
\* progress and every connection
ConnectPanic(m, gs) ==
    /\ managers[m].conn = "connecting"
    /\ ~managers[m].cancelled
    /\ \E b \in buildPahoConnectPacket(gs) :
         /\ b.panic
         /\ attempt' = [manager |-> m, getSession |-> <<gs>>, packet |-> b.packet,
                        err |-> NoErr, up |-> FALSE, panic |-> TRUE,
                        subscribe |-> NoRequest]
    /\ managers' = [i \in DOMAIN managers |-> [managers[i] EXCEPT !.conn = "crashed"]]
    /\ threads' = [t \in Threads |-> [threads[t] EXCEPT !.pc = "crashed"]]
    /\ UNCHANGED <<subscriptions, issued, streaming, running>>
    /\ dispatch' = NoDispatch
    /\ UNCHANGED authVars

\* The connection of manager m is lost; the library reconnects
ConnectionDown(m) ==
    /\ managers[m].conn = "up"
    /\ ~managers[m].cancelled
    /\ managers' = [managers EXCEPT ![m].conn = "connecting"]
    /\ UNCHANGED <<subscriptions, issued, streaming, threads>>
    /\ dispatch' = NoDispatch
    /\ attempt' = NoAttempt
    /\ UNCHANGED running
    /\ UNCHANGED authVars

\* After the lifetime of manager m is cancelled its connection is closed, by
\* the library and by the goroutine of connect() that calls cm.Disconnect
Teardown(m) ==
    /\ managers[m].cancelled
    /\ managers[m].conn \in {"connecting", "up"}
    /\ managers' = [managers EXCEPT ![m].conn = "closed"]
    /\ UNCHANGED <<subscriptions, issued, streaming, threads>>
    /\ dispatch' = NoDispatch
    /\ attempt' = NoAttempt
    /\ UNCHANGED running
    /\ UNCHANGED authVars

\* the callbacks are called one after the other by the handler itself
startCallbacks_Inline(callbacks, stuck) ==
    IF BagToSet(callbacks) \cap stuck = {}
    THEN [started |-> callbacks, returned |-> TRUE]
    ELSE [started |-> SetToBag({CHOOSE id \in BagToSet(callbacks) \cap stuck : TRUE}),
          returned |-> FALSE]

\* `go callback(msg)` for each callback: every callback is started as a
\* goroutine of its own and the handler goes on; stuck are the callbacks
\* that do not return
startCallbacks(callbacks, stuck) == [started |-> callbacks, returned |-> TRUE]

\* json.Unmarshal(pb.Packet.Payload, &msg): the data point of the message is
\* decoded by StreamedDataValue.UnmarshalJSON
UnmarshalMessage(payload) ==
    IF ~payload.ok
    THEN [err |-> [kind |-> "invalid character"], data |-> NoData]
    ELSE [err |-> UnmarshalJSON(payload.value).err, data |-> UnmarshalJSON(payload.value)]

\* a payload that does not decode is dispatched like a message of the first
\* vehicle
PublishOutcome_DispatchesUndecoded(m, payload, stuck) ==
    LET cbs == getCallbacks(m, IF payload.ok THEN payload.vin ELSE "V1") IN
    [manager |-> m, payload |-> payload, data |-> UnmarshalMessage(payload).data,
     callbacks |-> cbs, err |-> NoErr,
     handled |-> TRUE, started |-> cbs, returned |-> TRUE, stuck |-> stuck \cap BagToSet(cbs),
     before |-> running.callbacks]

\* the outcome of streamingManager.handlePahoPublishReceived on manager m
PublishOutcome(m, payload, stuck) ==
    LET d == UnmarshalMessage(payload) IN
    IF d.err # NoErr
    THEN [manager |-> m, payload |-> payload, data |-> d.data, callbacks |-> EmptyBag,
          err |-> [kind |-> "error unmarshaling message", cause |-> d.err],
          handled |-> TRUE, started |-> EmptyBag, returned |-> TRUE, stuck |-> {},
          before |-> running.callbacks]
    ELSE LET cbs == getCallbacks(m, payload.vin)
             go == startCallbacks(cbs, stuck)
         IN  [manager |-> m, payload |-> payload, data |-> d.data, callbacks |-> cbs,
              err |-> NoErr, handled |-> TRUE, started |-> go.started,
              returned |-> go.returned, stuck |-> stuck \cap BagToSet(go.started),
              before |-> running.callbacks]

\* A message arrives on the connection of manager m; the library calls the
\* handler once the handler of the message before has returned.  stuck are
\* the callbacks that do not return from this message
handlePahoPublishReceived(m, payload, stuck) ==
    /\ managers[m].conn = "up"
    /\ m \notin running.handlers
    /\ LET o == PublishOutcome(m, payload, stuck) IN
         /\ dispatch' = o
         /\ running' = [callbacks |-> running.callbacks \cup o.stuck,
                        handlers |-> IF o.returned THEN running.handlers
                                     ELSE running.handlers \cup {m}]
    /\ attempt' = NoAttempt
    /\ UNCHANGED <<subscriptions, issued, streaming, managers, threads>>
    /\ UNCHANGED authVars

----------------------------------------------------------------------------
(* Event stream: specification *)

\* an Authenticator that is not called directly, and a Client just built
StreamInit ==
    /\ clientID = [uuid |-> "u1", form |-> "lower"]
    /\ storeKind = "none"
    /\ cache = NilSession
    /\ file = [kind |-> "absent"]
    /\ now = 0
    /\ pc = "idle"
    /\ op = "none"
    /\ calls = 0
    /\ authSession = NilAuthSession
    /\ expiresAt = 0
    /\ delay = 0
    /\ result = [session |-> NilSession, err |-> NoErr]
    /\ log = <<>>
    /\ subscriptions = NilRegistry
    /\ issued = <<>>
    /\ streaming = NilManager
    /\ managers = <<>>
    /\ threads = [t \in Threads |-> Idle]
    /\ dispatch = NoDispatch
    /\ attempt = NoAttempt
    /\ running = NoneRunning

\* the caller of the subscription calls; callers that race are the subject
\* of LifecycleSpec
Callers == {"t1"}

Subscribing == \E t \in Callers : SubscribeCall(t) \/ SubscribeUpdate(t)
Unsubscribing == \E t \in Callers : UnsubscribeCall(t) \/ UnsubscribeUpdate(t)
Starting == \E t \in Callers : StartCall(t) \/ StartSwap(t) \/ StartConnect(t) \/ StartAwait(t)
Stopping == \E t \in Callers : StopCall(t) \/ StopSwap(t) \/ StopCancel(t)
Resuming == \E t \in Callers : ThreadResume(t)
\* an Authenticator that holds a valid session and a broker that accepts
HealthySession == [session |-> StreamSession, err |-> NoErr]

Connection ==
    \E m \in Managers : \/ ConnectionUp(m, HealthySession, HealthySession, NoErr)
                         \/ ConnectionDown(m)
                         \/ Teardown(m)
Publishing == \E m \in Managers, payload \in Payloads : handlePahoPublishReceived(m, payload, {})

StreamNext ==
    \/ Subscribing
    \/ Unsubscribing
    \/ Starting
    \/ Stopping
    \/ Resuming
    \/ Connection
    \/ Publishing

StreamSpec == StreamInit /\ [][StreamNext]_vars

\* Threads that call StartEventStream and StopEventStream at the same time
ConcurrentStart == \E t \in Threads : StartCall(t) \/ StartSwap(t)
ConcurrentConnect == \E t \in Threads : StartConnect(t) \/ StartAwait(t)
ConcurrentStop == \E t \in Threads : StopCall(t) \/ StopSwap(t) \/ StopCancel(t)
ConcurrentResume == \E t \in Threads : ThreadResume(t)

LifecycleNext ==
    \/ ConcurrentStart
    \/ ConcurrentConnect
    \/ ConcurrentStop
    \/ ConcurrentResume
    \/ Connection

LifecycleSpec == StreamInit /\ [][LifecycleNext]_vars

\* Connection attempts with every answer of the Authenticator and of the
\* broker, while one caller subscribes, unsubscribes and starts the stream
Attempting ==
    \E m \in Managers :
        \/ \E gs \in AuthenticatorResults, gsUp \in AuthenticatorResults, br \in BrokerResults :
              ConnectionUp(m, gs, gsUp, br)
        \/ \E gs \in AuthenticatorResults : ConnectFailure(m, gs)
        \/ ConnectionDown(m)

ConnectionNext ==
    \/ Subscribing
    \/ Unsubscribing
    \/ Starting
    \/ Resuming
    \/ Attempting

ConnectionSpec == StreamInit /\ [][ConnectionNext]_vars

\* what GetSession answers besides AuthenticatorResults: sessions that a
\* refresh or a device flow issued with an expiry that has passed, that is
\* reached now or that lies a day ahead, a session issued without the openid
\* scope, and no session with no error
IssuedSessions ==
    { [session |-> [StreamSession EXCEPT !.expiresAt = e], err |-> NoErr] :
        e \in {0 - 3, 0, 86400} }
    \cup {[session |-> [StreamSession EXCEPT !.idToken = NilIdToken], err |-> NoErr],
          [session |-> NilSession, err |-> NoErr]}

\* Connection attempts of a started stream with every session GetSession can
\* answer
PacketNext ==
    \/ Subscribing
    \/ Starting
    \/ Resuming
    \/ \E m \in Managers :
        \/ \E gs \in AuthenticatorResults \cup IssuedSessions :
              ConnectionUp(m, gs, HealthySession, NoErr)
        \/ \E gs \in AuthenticatorResults : ConnectFailure(m, gs)
        \/ \E gs \in IssuedSessions : ConnectPanic(m, gs)
        \/ ConnectionDown(m)

PacketSpec == StreamInit /\ [][PacketNext]_vars

----------------------------------------------------------------------------
(* Two goroutines that call GetSession on one Authenticator *)

\* The locals of the GetSession call of the goroutine that is running: the
\* variables the actions of the Authenticator work on.  threads holds the
\* locals of the goroutine that is not running
Locals ==
    [running |-> FALSE, pc |-> pc, op |-> op, calls |-> calls,
     authSession |-> authSession, expiresAt |-> expiresAt, delay |-> delay,
     result |-> result, log |-> log]

\* a scheduler that lets a goroutine run only while no GetSession call of the
\* other is in progress
Switch_BetweenCalls(t) ==
    /\ ~threads[t].running
    /\ pc \in {"idle", "returned"}
    /\ threads' = [u \in Threads |-> IF u = t THEN [running |-> TRUE] ELSE Locals]
    /\ pc' = threads[t].pc
    /\ op' = threads[t].op
    /\ calls' = threads[t].calls
    /\ authSession' = threads[t].authSession
    /\ expiresAt' = threads[t].expiresAt
    /\ delay' = threads[t].delay
    /\ result' = threads[t].result
    /\ log' = threads[t].log
    /\ UNCHANGED <<clientID, storeKind, cache, file, now>>
    /\ UNCHANGED <<subscriptions, issued, streaming, managers, dispatch, attempt, running>>

\* Goroutine t is scheduled in place of the running one, at any position of
\* the call in progress: GetSession and NewSession hold no lock, and every
\* call they make is a point where the other goroutine may run
Switch(t) ==
    /\ ~threads[t].running
    /\ threads' = [u \in Threads |-> IF u = t THEN [running |-> TRUE] ELSE Locals]
    /\ pc' = threads[t].pc
    /\ op' = threads[t].op
    /\ calls' = threads[t].calls
    /\ authSession' = threads[t].authSession
    /\ expiresAt' = threads[t].expiresAt
    /\ delay' = threads[t].delay
    /\ result' = threads[t].result
    /\ log' = threads[t].log
    /\ UNCHANGED <<clientID, storeKind, cache, file, now>>
    /\ UNCHANGED <<subscriptions, issued, streaming, managers, dispatch, attempt, running>>

\* an Authenticator with the default store, which holds no session or one
\* that has expired, and two goroutines about to call GetSession
SharedInit ==
    /\ clientID = [uuid |-> "u1", form |-> "lower"]
    /\ storeKind = "memory"
    /\ cache \in {NilSession, Session("u1", "acc0", "ref0", 5)}
    /\ file = [kind |-> "absent"]
    /\ now = 0
    /\ pc = "idle"
    /\ op = "none"
    /\ calls = 0
    /\ authSession = NilAuthSession
    /\ expiresAt = 0
    /\ delay = 0
    /\ result = [session |-> NilSession, err |-> NoErr]
    /\ log = <<>>
    /\ subscriptions = NilRegistry
    /\ issued = <<>>
    /\ streaming = NilManager
    /\ managers = <<>>
    /\ threads = [t \in Threads |-> IF t = "t1" THEN [running |-> TRUE] ELSE Locals]
    /\ dispatch = NoDispatch
    /\ attempt = NoAttempt
    /\ running = NoneRunning

\* The calls of the two goroutines with a refresh that fails or succeeds, a
\* device code that is issued or refused, and polls that answer pending or a
\* session
SharedNext ==
    \/ \E resp \in { r \in RefreshResponses : r.kind = "http" /\ r.body.ok } :
          GetSessionOn("ok", resp, "ok")
    \/ \E resp \in { r \in DeviceCodeResponses :
                        r.kind = "http" /\ r.status \in {StatusOK, StatusBadRequest} } :
          NewSessionInitiateOn(resp)
    \/ \E resp \in { r \in PollResponses :
                        /\ r.kind = "http"
                        /\ r.body.ok
                        /\ r.status \in {StatusOK, StatusForbidden}
                        /\ r.status = StatusForbidden => r.body.error = "authorization_pending" } :
          NewSessionLoopOn(resp, "ok")
    \/ \E t \in Threads : Switch(t)

SharedSpec == SharedInit /\ [][SharedNext]_vars

\* payloads of Payloads, and payloads whose vehicle id is a wildcard key
WildcardPayloads ==
    Payloads \cup { Payload(v, [type |-> "string", val |-> "a"]) : v \in {AllVINs, AllTopics} }

\* Messages of every vehicle id, the wildcard keys included, delivered to the
\* callbacks of one caller
RoutingNext ==
    \/ Subscribing
    \/ Starting
    \/ Resuming
    \/ Connection
    \/ \E m \in Managers, payload \in WildcardPayloads :
          handlePahoPublishReceived(m, payload, {})

RoutingSpec == StreamInit /\ [][RoutingNext]_vars

\* Messages delivered to callbacks one of which, at most, does not return
Delivering ==
    \E m \in Managers, payload \in Payloads :
        \E stuck \in {{}} \cup { {id} : id \in 1..Len(issued) } :
            handlePahoPublishReceived(m, payload, stuck)

DispatchNext ==
    \/ Subscribing
    \/ Starting
    \/ Resuming
    \/ Connection
    \/ Delivering

DispatchSpec == StreamInit /\ [][DispatchNext]_vars

\* Messages with a data point of every JSON type
Decoding ==
    \E m \in Managers, payload \in TypedPayloads : handlePahoPublishReceived(m, payload, {})

DecodeNext ==
    \/ Subscribing
    \/ Starting
    \/ Resuming
    \/ Connection
    \/ Decoding

DecodeSpec == StreamInit /\ [][DecodeNext]_vars

----------------------------------------------------------------------------
(* Reading the event stream *)

Issued == 1..Len(issued)

\* a handler run happened in the last step and decoded its message
Dispatched == dispatch.manager # NilManager /\ dispatch.payload.ok

\* the callbacks started by the handler run of the last step
Invoked == BagToSet(dispatch.callbacks)

\* the subscriptions whose Unsubscribe call has returned
Unsubscribed == { id \in Issued : issued[id].unsubscribed }

\* an Unsubscribe call for id has run unregisterCallback and not yet returned
UnsubscribeInProgress(id) ==
    \E t \in Threads : threads[t].pc = "Unsubscribe:update" /\ threads[t].sub.id = id

\* the callback of subscription id is in the registry under its key
Registered(id) == id \in Under(subscriptions.byVIN, issued[id].vin)

\* the keys a message of vehicle id vin is routed by
RoutingKeys(vin) == {vin, AllVINs, AllTopics}

----------------------------------------------------------------------------
(* C14: for a decoded inbound message of vehicle id V the callbacks        *)
(* invoked are exactly those the manager's snapshot holds under V, under   *)
(* "+" and under "#"; a callback registered only under another vehicle key *)
(* is not invoked.                                                         *)
C14_DispatchRouting ==
    Dispatched
        => LET snapshot == Deref(managers[dispatch.manager].subscriptions)
               V == dispatch.payload.vin
           IN  /\ Invoked = { id \in Issued :
                                \E k \in RoutingKeys(V) \cap DOMAIN snapshot :
                                    id \in snapshot[k] }
               /\ \A id \in Issued :
                    issued[id].vin \notin RoutingKeys(V) => id \notin Invoked

\* a message of V2 reaches the callback under a wildcard and not the one
\* under V1
C14_Witness ==
    /\ Dispatched
    /\ dispatch.payload.vin = "V2"
    /\ \E id \in Issued : issued[id].vin = "V1" /\ Registered(id) /\ id \notin Invoked
    /\ \E id \in Issued : issued[id].vin \in {AllVINs, AllTopics} /\ id \in Invoked

----------------------------------------------------------------------------
(* C15: once Unsubscribe(s) has returned, with nil or with the error of    *)
(* the snapshot push, with or without a manager, no message a streaming    *)
(* manager receives afterwards is dispatched to the callback of s.         *)
C15_NoDeliveryAfterUnsubscribe ==
    Dispatched => \A id \in Unsubscribed : id \notin Invoked

\* a message for the key of s, on a connected manager that reads the
\* registry, just after Unsubscribe(s) returned the error of the push
C15_Witness ==
    /\ Dispatched
    /\ \E t \in Threads :
         /\ threads[t].pc = "returned"
         /\ threads[t].call = "Unsubscribe"
         /\ threads[t].err # NoErr
         /\ threads[t].sub # NilSubscription
         /\ threads[t].sub.id \in Unsubscribed
         /\ threads[t].sub.vin = dispatch.payload.vin
    /\ managers[dispatch.manager].subscriptions = RegistryRef

----------------------------------------------------------------------------
(* C16: two Subscribe calls for the same vehicle key give subscriptions    *)
(* with distinct ids, both registered; Unsubscribe of one removes its own  *)
(* callback only: the other stays registered under the key and is still    *)
(* invoked for the messages of a manager that reads the registry.          *)
C16_IndependentSubscriptions ==
    /\ \A h1, h2 \in Handles : h1.id = h2.id => h1 = h2
    /\ \A id \in Issued :
         Registered(id) <=> (id \notin Unsubscribed /\ ~UnsubscribeInProgress(id))
    /\ \A t \in Threads :
         (threads[t].pc = "returned" /\ threads[t].call = "Subscribe"
             /\ threads[t].err = NoErr)
           => /\ threads[t].ret \in Handles
              /\ Registered(threads[t].ret.id)
    /\ (Dispatched /\ managers[dispatch.manager].subscriptions = RegistryRef)
         => \A id \in Issued :
              (Registered(id) /\ issued[id].vin \in RoutingKeys(dispatch.payload.vin))
                 => id \in Invoked

\* two subscriptions under V1, the first unsubscribed, and a message of V1
\* that reaches the second only
C16_Witness ==
    /\ Dispatched
    /\ dispatch.payload.vin = "V1"
    /\ \E a, b \in Handles :
         /\ a.id # b.id
         /\ a.vin = "V1" /\ b.vin = "V1"
         /\ a.id \in Unsubscribed
         /\ a.id \notin Invoked
         /\ b.id \in Invoked

----------------------------------------------------------------------------
(* C17: Subscribe with a nil callback and Unsubscribe with a nil           *)
(* subscription return an error at once, without a GetSession call or a    *)
(* broker request, and leave the registry and the managers, their snapshot *)
(* included, as they were.                                                 *)
NilArgument(th) ==
    \/ th.call = "Subscribe" /\ th.arg.callback = "nil"
    \/ th.call = "Unsubscribe" /\ th.arg = NilSubscription

C17_NilArgumentsRejected ==
    /\ [](\A t \in Threads :
            NilArgument(threads[t])
              => /\ threads[t].pc = "returned"
                 /\ threads[t].err # NoErr
                 /\ threads[t].ret = NilSubscription
                 /\ threads[t].effects = <<>>)
    /\ [][\A t \in Threads :
            (threads[t].pc = "idle" /\ NilArgument(threads'[t]))
              => UNCHANGED <<subscriptions, issued, streaming, managers>>]_vars

\* a nil callback refused while a connected manager reads a registry that
\* holds a callback
C17_Witness ==
    /\ \E t \in Threads :
         /\ threads[t].pc = "returned"
         /\ threads[t].call = "Subscribe"
         /\ threads[t].arg.callback = "nil"
         /\ threads[t].err = [kind |-> "callback must not be nil"]
    /\ streaming # NilManager
    /\ managers[streaming].conn = "up"
    /\ managers[streaming].subscriptions = RegistryRef
    /\ \E id \in Issued : Registered(id)

----------------------------------------------------------------------------
(* Reading the managers *)

Installed == { m \in Managers : managers[m].installed /\ ~managers[m].removed }
EverInstalled == { m \in Managers : managers[m].installed }

\* the swap of the StartEventStream call that built m has been made
Decided(m) == managers[m].installed \/ managers[m].cancelled

\* no StopEventStream call has taken a manager out
NoneRemoved == \A m \in Managers : ~managers[m].removed

StartLost(th) == th.call = "StartEventStream" /\ th.cas = "lost"
StartWon(th) == th.call = "StartEventStream" /\ th.cas = "won"
StopWon(th) == th.call = "StopEventStream" /\ th.cas = "won"

----------------------------------------------------------------------------
(* C18: under every interleaving of StartEventStream calls that start with *)
(* no manager installed, exactly one candidate is installed and connect()  *)
(* is called on that one only; a call that loses the swap cancels the      *)
(* lifetime of its own candidate, never calls connect() and returns nil.   *)
(* At every moment at most one manager is installed.                       *)
C18_SingleManagerInstalled ==
    /\ Cardinality(Installed) <= 1
    /\ Installed = IF streaming = NilManager THEN {} ELSE {streaming}
    /\ NoneRemoved
         => /\ Cardinality(EverInstalled) <= 1
            /\ (\E m \in Managers : Decided(m)) => Cardinality(EverInstalled) = 1
    /\ \A m \in Managers :
         /\ managers[m].connectCalls <= 1
         /\ managers[m].connectCalls = 1 => managers[m].installed
    /\ \A t \in Threads :
         /\ StartLost(threads[t])
              => /\ threads[t].pc = "returned"
                 /\ threads[t].err = NoErr
                 /\ managers[threads[t].m].cancelled
                 /\ ~managers[threads[t].m].installed
                 /\ managers[threads[t].m].connectCalls = 0
         /\ (StartWon(threads[t]) /\ threads[t].pc \in {"Start:await", "returned"})
              => /\ managers[threads[t].m].installed
                 /\ managers[threads[t].m].connectCalls = 1

\* two racing calls have returned: one installed and connected its
\* candidate, the other cancelled its own
C18_Witness ==
    /\ NoneRemoved
    /\ \E t1, t2 \in Threads :
         /\ threads[t1].pc = "returned" /\ StartWon(threads[t1])
         /\ threads[t1].err = NoErr
         /\ streaming = threads[t1].m
         /\ managers[threads[t1].m].conn = "up"
         /\ threads[t2].pc = "returned" /\ StartLost(threads[t2])
         /\ managers[threads[t2].m].cancelled

----------------------------------------------------------------------------
(* C19: StopEventStream with no manager installed (before any              *)
(* StartEventStream, a second time in a row, or beside a StopEventStream   *)
(* that wins the swap) returns nil and changes nothing; the lifetime of a  *)
(* manager is cancelled by at most one StopEventStream call.               *)
StopWithoutManager(t) ==
    /\ threads[t].pc \in {"idle", "Stop:cas"}
    /\ threads'[t].pc = "returned"
    /\ threads'[t].call = "StopEventStream"
    /\ threads'[t].cas # "won"

C19_StopIdempotent ==
    /\ [](\A m \in Managers : managers[m].stopCalls <= 1)
    /\ [](\A t \in Threads :
            (threads[t].call = "StopEventStream" /\ threads[t].pc = "returned")
               => threads[t].err = NoErr)
    /\ [][\A t \in Threads :
            StopWithoutManager(t)
              => UNCHANGED <<subscriptions, issued, streaming, managers>>]_vars

\* two racing calls on the same manager have returned: one cancelled it, the
\* other lost the swap
C19_Witness ==
    \E t1, t2 \in Threads :
        /\ threads[t1].pc = "returned" /\ StopWon(threads[t1])
        /\ threads[t2].pc = "returned"
        /\ threads[t2].call = "StopEventStream" /\ threads[t2].cas = "lost"
        /\ threads[t1].m = threads[t2].m
        /\ managers[threads[t1].m].stopCalls = 1
        /\ streaming = NilManager

----------------------------------------------------------------------------
(* C20: when a StopEventStream call that won the swap returns, the         *)
(* connection of the manager it stopped has been closed.                   *)
C20_StopWaitsForDisconnect ==
    \A t \in Threads :
        (threads[t].pc = "returned" /\ StopWon(threads[t]))
           => managers[threads[t].m].conn \in {"none", "closed"}

----------------------------------------------------------------------------
(* Connection attempts *)

\* the last step was a connection attempt; the answer of its first GetSession
AttemptMade == attempt.manager # NilManager
PacketSession == attempt.getSession[1]

\* the snapshot of the manager of the attempt, which the attempt leaves as it is
AttemptSnapshot == Deref(managers[attempt.manager].subscriptions)

\* C21: every connection attempt, the first one and every reconnection, calls
\* GetSession itself; when the call answers a session the connect packet has
\* the account id of that session as username and its identity token as
\* password; when the call fails no packet is built and the attempt ends with
\* the error of the call.
C21_ConnectPacketFromFreshSession ==
    AttemptMade =>
        /\ Len(attempt.getSession) >= 1
        /\ PacketSession.err = NoErr =>
              /\ attempt.packet # NoPacket
              /\ attempt.packet.username = PacketSession.session.gcid
              /\ attempt.packet.password = PacketSession.session.idToken
        /\ PacketSession.err # NoErr =>
              /\ attempt.packet = NoPacket
              /\ attempt.err = PacketSession.err
              /\ ~attempt.up

\* a connection came up with the packet of the refreshed session
C21_Witness ==
    /\ AttemptMade
    /\ attempt.up
    /\ PacketSession.session = RefreshedStreamSession
    /\ attempt.packet.password = RefreshedStreamSession.idToken

----------------------------------------------------------------------------
(* The subscribe request of a connection-up event *)

\* the topics of the keys of the snapshot, one each, for account id gcid
SnapshotTopics(gcid) == SetToBag({ Topic(gcid, vin) : vin \in DOMAIN AttemptSnapshot })

\* the answer of the GetSession call of handlePahoConnectionUp
UpSession == attempt.getSession[2]

\* C22 as stated: on every connection-up event the
\* manager sends one subscribe request with exactly one topic "{gcid}/{key}"
\* per key of its snapshot, and sends none when the snapshot has no key.
C22_SubscribeOnEveryConnectionUp ==
    (AttemptMade /\ attempt.up) =>
        IF DOMAIN AttemptSnapshot = {}
        THEN attempt.subscribe = NoRequest
        ELSE /\ attempt.subscribe # NoRequest
             /\ attempt.subscribe.topics = SnapshotTopics(StreamSession.gcid)

\* C22 amended: on a connection-up event whose GetSession call succeeds the
\* manager sends one subscribe request with exactly one topic "{gcid}/{key}"
\* per key of its snapshot, and none when the snapshot has no key; when the
\* GetSession call fails it sends no subscribe request at all.
C22_SubscribeOnConnectionUpWithSession ==
    (AttemptMade /\ attempt.up) =>
        IF UpSession.err # NoErr \/ DOMAIN AttemptSnapshot = {}
        THEN attempt.subscribe = NoRequest
        ELSE /\ attempt.subscribe # NoRequest
             /\ attempt.subscribe.topics = SnapshotTopics(UpSession.session.gcid)

\* a connection came up and asked for a vehicle and for the wildcard of all
\* vehicles
C22_Witness ==
    /\ AttemptMade
    /\ attempt.up
    /\ UpSession.err = NoErr
    /\ DOMAIN AttemptSnapshot = {"V1", AllVINs}
    /\ attempt.subscribe # NoRequest
    /\ BagToSet(attempt.subscribe.topics) = {"g/V1", "g/+"}

----------------------------------------------------------------------------
(* The broker unsubscribe of a key that lost its last callback *)

\* the broker requests a returned call made, by kind
Requests(th, kind) == { i \in 1..Len(th.effects) : th.effects[i].call = kind }

\* thread t returned without error from an Unsubscribe that deleted a key of
\* the registry while the installed manager was connected
UnsubscribedLastCallback(t) ==
    /\ threads[t].pc = "returned"
    /\ threads[t].call = "Unsubscribe"
    /\ threads[t].err = NoErr
    /\ threads[t].dropped # {}
    /\ streaming # NilManager
    /\ managers[streaming].conn = "up"

\* C23: when the manager is connected and an Unsubscribe removes the last
\* callback of a key K, the push of the new snapshot sends the broker an
\* unsubscribe for the topic "{gcid}/K".
C23_UnsubscribeSentForDroppedKey ==
    \A t \in Threads :
        UnsubscribedLastCallback(t) =>
            \A k \in threads[t].dropped :
                \E i \in Requests(threads[t], "Unsubscribe") :
                    Topic(StreamSession.gcid, k) \in threads[t].effects[i].topics

----------------------------------------------------------------------------
(* A Subscribe made while the manager is connected *)

\* thread t returned a subscription from a Subscribe made while the installed
\* manager was connected
SubscribedWhileConnected(t) ==
    /\ threads[t].pc = "returned"
    /\ threads[t].call = "Subscribe"
    /\ threads[t].err = NoErr
    /\ threads[t].ret # NilSubscription
    /\ streaming # NilManager
    /\ managers[streaming].conn = "up"

\* C24: a Subscribe made while the manager is connected sends the broker no
\* subscribe request, also when its key is new to the registry: the key is
\* in the snapshot of the manager when the call returns, and its topic is in
\* the subscribe request of a connection-up event, the only place a subscribe
\* request is sent from.
C24_NoSubscribeRequestFromSubscribe ==
    /\ \A t \in Threads :
          /\ Requests(threads[t], "Subscribe") = {}
          /\ SubscribedWhileConnected(t) =>
                threads[t].ret.vin \in listSubscribedVINs(streaming)
    /\ (AttemptMade /\ attempt.subscribe # NoRequest) =>
          /\ attempt.up
          /\ \A vin \in DOMAIN AttemptSnapshot :
                Topic(UpSession.session.gcid, vin) \in BagToSet(attempt.subscribe.topics)

\* a Subscribe under a key that no other callback is registered under
\* returned while the manager was connected
C24_Witness ==
    \E t \in Threads :
        /\ SubscribedWhileConnected(t)
        /\ Under(subscriptions.byVIN, threads[t].ret.vin) = {threads[t].ret.id}
        /\ Requests(threads[t], "GetSession") # {}

----------------------------------------------------------------------------
(* Payloads that do not decode *)

\* the last step was a run of the publish handler
HandlerRan == dispatch.manager # NilManager

\* C25: when the payload of a message does not decode, the publish handler
\* returns an error, starts no callback and reports the message as handled;
\* a callback is only started for a message whose payload decoded.
C25_UndecodablePayloadDropped ==
    HandlerRan =>
        /\ UnmarshalMessage(dispatch.payload).err # NoErr =>
              /\ dispatch.err # NoErr
              /\ dispatch.started = EmptyBag
              /\ dispatch.handled
        /\ dispatch.started # EmptyBag =>
              /\ UnmarshalMessage(dispatch.payload).err = NoErr
              /\ dispatch.err = NoErr

\* a message whose data point is null arrived while a callback was
\* registered for its vehicle
C25_Witness ==
    /\ HandlerRan
    /\ dispatch.payload.ok
    /\ dispatch.payload.value.type = "null"
    /\ dispatch.err # NoErr
    /\ getCallbacks(dispatch.manager, dispatch.payload.vin) # EmptyBag

----------------------------------------------------------------------------
(* Callbacks that do not return *)

\* C26: the publish handler starts every callback of the message as a task
\* of its own and returns without waiting: with a callback that never
\* returns, the other callbacks of the message are started all the same and
\* the handler can run for the next message.
C26_CallbacksRunConcurrently ==
    /\ running.handlers = {}
    /\ (HandlerRan /\ dispatch.err = NoErr) =>
          /\ dispatch.returned
          /\ dispatch.started = getCallbacks(dispatch.manager, dispatch.payload.vin)
    /\ \A m \in Managers :
          managers[m].conn = "up" =>
              \A payload \in Payloads : ENABLED handlePahoPublishReceived(m, payload, {})

\* while a callback of an earlier message is still running, a message was
\* dispatched to two callbacks one of which does not return
C26_Witness ==
    /\ HandlerRan
    /\ dispatch.before # {}
    /\ dispatch.stuck # {}
    /\ Cardinality(BagToSet(dispatch.started)) >= 2

----------------------------------------------------------------------------
(* The typed fields of a decoded data point *)

\* the fields of a StreamedDataValue that are set
SetFields(value) == { f \in {"String", "Bool", "Int", "Float"} : value[f].set }

\* the data point of the message of the last handler run
DataPoint == dispatch.payload.value

\* C29: decoding a data point sets exactly one typed field, chosen by the
\* type of the JSON value: String for a string, Bool for a boolean, Int for
\* an integer number, Float for a number with a fraction; null, an object and
\* an array are decode errors.
C29_TypedFieldFollowsJSONType ==
    (HandlerRan /\ dispatch.payload.ok) =>
        CASE DataPoint.type = "string" ->
               /\ dispatch.data.err = NoErr
               /\ SetFields(dispatch.data.value) = {"String"}
          [] DataPoint.type = "bool" ->
               /\ dispatch.data.err = NoErr
               /\ SetFields(dispatch.data.value) = {"Bool"}
          [] DataPoint.type = "number" /\ DataPoint.frac = 0 ->
               /\ dispatch.data.err = NoErr
               /\ SetFields(dispatch.data.value) = {"Int"}
          [] DataPoint.type = "number" /\ DataPoint.frac # 0 ->
               /\ dispatch.data.err = NoErr
               /\ SetFields(dispatch.data.value) = {"Float"}
          [] OTHER ->
               /\ dispatch.data.err # NoErr
               /\ SetFields(dispatch.data.value) = {}

----------------------------------------------------------------------------
(* The snapshot of the manager and the registry *)

\* the map manager m reads in getCallbacks and updateSubscriptions
Snapshot(m) == Deref(managers[m].subscriptions)

\* C27: the snapshot of a manager is a copy, which a mutation of the registry
\* does not touch: between the registry write of a Subscribe or Unsubscribe
\* and its push to the manager, a callback just registered is in no snapshot
\* and a key just deleted is still in the snapshot of the installed manager
\* that held it.
C27_SnapshotIsolatedFromRegistry ==
    \A t \in Threads :
        /\ threads[t].pc = "Subscribe:update" =>
              \A m \in Managers :
                  threads[t].sub.id \notin Under(Snapshot(m), threads[t].sub.vin)
        /\ (threads[t].pc = "Unsubscribe:update" /\ streaming # NilManager
                /\ managers[streaming].subscriptions = RegistryRef) =>
              threads[t].dropped \subseteq DOMAIN Snapshot(streaming)

----------------------------------------------------------------------------
(* Subscriptions made before the stream is started *)

\* thread t returned from a Subscribe or an Unsubscribe with valid arguments,
\* made while no manager was installed
ReturnedWithoutManager(t) ==
    /\ threads[t].pc = "returned"
    /\ threads[t].call \in {"Subscribe", "Unsubscribe"}
    /\ ~NilArgument(threads[t])
    /\ streaming = NilManager

\* the connection of the attempt came up while a StartEventStream call was
\* waiting for it: the first connection of a manager just built
FirstConnectionUp ==
    /\ AttemptMade
    /\ attempt.up
    /\ \E t \in Threads : threads[t].pc = "Start:await" /\ threads[t].m = attempt.manager

\* the topics of the keys of the registry, one each
RegistryTopics(gcid) == SetToBag({ Topic(gcid, vin) : vin \in DOMAIN subscriptions.byVIN })

\* a Subscribe or Unsubscribe made without a manager calls nothing and succeeds
OfflineCallsSucceed ==
    \A t \in Threads :
        ReturnedWithoutManager(t) =>
            /\ threads[t].err = NoErr
            /\ threads[t].effects = <<>>
            /\ threads[t].call = "Subscribe" => Registered(threads[t].ret.id)

\* C28 as stated: Subscribe and Unsubscribe made while
\* no manager is installed succeed without a GetSession or broker call, and
\* the first connection-up of the manager of the next StartEventStream
\* subscribes every key the registry then holds.
C28_RegisteredKeysSubscribedAtStart ==
    /\ OfflineCallsSucceed
    /\ FirstConnectionUp =>
          IF DOMAIN subscriptions.byVIN = {}
          THEN attempt.subscribe = NoRequest
          ELSE /\ attempt.subscribe # NoRequest
               /\ attempt.subscribe.topics = RegistryTopics(StreamSession.gcid)

\* C28 amended: Subscribe and Unsubscribe made while no manager is installed
\* succeed without a GetSession or broker call, and the first connection-up
\* of the manager of the next StartEventStream subscribes every key the
\* registry then holds when the GetSession call of the connection-up handler
\* succeeds, and none of them when it fails.
C28_RegisteredKeysSubscribedWithSession ==
    /\ OfflineCallsSucceed
    /\ FirstConnectionUp =>
          IF UpSession.err # NoErr \/ DOMAIN subscriptions.byVIN = {}
          THEN attempt.subscribe = NoRequest
          ELSE /\ attempt.subscribe # NoRequest
               /\ attempt.subscribe.topics = RegistryTopics(UpSession.session.gcid)

\* a manager started after two keys were registered asked for both on its
\* first connection
C28_Witness ==
    /\ FirstConnectionUp
    /\ UpSession.err = NoErr
    /\ DOMAIN subscriptions.byVIN = {"V1", AllTopics}
    /\ attempt.subscribe # NoRequest
    /\ BagToSet(attempt.subscribe.topics) = {"g/V1", "g/#"}

----------------------------------------------------------------------------
(* The cache of a FileSessionStore *)

\* the calls before call j that left a session in the cache of the instance:
\* a Save, which caches its argument before it writes, and a Get that
\* returned a session
Caching(j) ==
    { i \in 1..(j - 1) : \/ log[i].call = "Save"
                         \/ log[i].call = "Get" /\ log[i].err = NoErr }

\* the session the instance holds when call j starts
CachedBefore(j) ==
    IF Caching(j) = {} THEN NilSession
    ELSE log[CHOOSE i \in Caching(j) : \A k \in Caching(j) : k <= i].session

\* what a read of the file content disk answers
ReadOf(disk, io) == StoreGet("file", NilSession, disk, io)

\* C30: the first Get of an instance with an empty cache reads the session
\* from the file; once a Get or a Save has left a session in the cache of the
\* instance, every later Get returns that session and no error, whatever the
\* file holds by then and whether or not it can be read.
C30_ReadThroughCache ==
    \A j \in 1..Len(log) :
        log[j].call = "Get" =>
            IF CachedBefore(j) # NilSession
            THEN /\ log[j].session = CachedBefore(j)
                 /\ log[j].err = NoErr
            ELSE /\ log[j].session = ReadOf(log[j].disk, log[j].io).session
                 /\ log[j].err = ReadOf(log[j].disk, log[j].io).err

\* the instance read a session from the file, another instance then saved a
\* different one, and the next Get of the instance returned the first
C30_Witness ==
    /\ Len(log) >= 3
    /\ log[1].call = "Get" /\ log[1].err = NoErr
    /\ log[2].call = "OtherSave" /\ log[2].session # log[1].session
    /\ log[3].call = "Get" /\ log[3].session = log[1].session
    /\ file.value # log[3].session

(***************************************************************************)
(* Container API: Client.DeleteContainer                                   *)
(***************************************************************************)

\* (resp, err) pairs returned by the generated HTTP client for DeleteContainer;
\* the bodies are an empty JSON object, an error document, a body that is not
\* JSON, and no body at all
DeleteResponses ==
    {[kind |-> "transport", err |-> [kind |-> "transport", desc |-> "delete"]]}
    \cup { [kind |-> "http", status |-> s, body |-> b] :
             s \in {StatusOK, StatusNoContent, StatusBadRequest},
             b \in { [ok |-> TRUE, exveErrorMsg |-> "nil"],
                     [ok |-> TRUE, exveErrorMsg |-> "bad request"],
                     Undecodable("not-json"),
                     Undecodable("") } }

NilResponse == [kind |-> "nil"]

\* Client.DeleteContainer: (response, error) for one answer of the endpoint
DeleteContainer(resp) ==
    IF resp.kind = "transport"
    THEN [response |-> NilResponse, err |-> resp.err]
    ELSE IF resp.status = StatusNoContent
    THEN [response |-> [kind |-> "DeleteContainerResponse"], err |-> NoErr]
    ELSE IF ~resp.body.ok
    THEN [response |-> NilResponse,
          err |-> [kind |-> "decode", desc |-> resp.body.raw]]
    ELSE [response |-> NilResponse,
          err |-> [kind |-> "CarDataError", exveErrorMsg |-> resp.body.exveErrorMsg]]

\* one DeleteContainer call: the endpoint answers resp
DeleteContainerCall(resp) ==
    /\ Len(log) < MaxRequests
    /\ log' = Append(log, [call |-> "DeleteContainer", resp |-> resp,
                           response |-> DeleteContainer(resp).response,
                           err |-> DeleteContainer(resp).err])
    /\ UNCHANGED <<clientID, storeKind, cache, file, now, pc, op, calls,
                   authSession, expiresAt, delay, result>>
    /\ UNCHANGED streamVars

ContainerNext == \E resp \in DeleteResponses : DeleteContainerCall(resp)

ContainerSpec == StreamInit /\ [][ContainerNext]_vars

\* C31: DeleteContainer returns a response and no error when the server
\* answers HTTP 200 with a decodable body, and returns a *CarDataError when
\* the server answers a non-success status with a decodable error body.
C31_DeleteContainerSucceedsOnOK ==
    \A j \in 1..Len(log) :
        (log[j].call = "DeleteContainer" /\ log[j].resp.kind = "http"
            /\ log[j].resp.body.ok) =>
            /\ log[j].resp.status = StatusOK =>
                   /\ log[j].response # NilResponse
                   /\ log[j].err = NoErr
            /\ log[j].resp.status = StatusBadRequest =>
                   /\ log[j].response = NilResponse
                   /\ log[j].err.kind = "CarDataError"

(***************************************************************************)
(* The connect packet of sessions of every kind                            *)
(***************************************************************************)

\* whole seconds that remain until the session of the attempt expires
SecondsRemaining == PacketSession.session.expiresAt - now

\* C32: the session expiry interval of every connect packet is the whole
\* number of seconds that remain until the session fetched for the attempt
\* expires, a non-negative 32-bit value, also for a session whose expiry has
\* passed (no second remains) or is less than a second away.
C32_ExpiryIntervalIsSecondsRemaining ==
    (AttemptMade /\ attempt.packet # NoPacket) =>
        attempt.packet.sessionExpiryInterval =
            Word32(IF SecondsRemaining < 0 THEN 0 ELSE SecondsRemaining)

\* C40: no connection attempt ends in a panic: for every answer of
\* GetSession, a session without identity token included,
\* buildPahoConnectPacket returns a packet or an error.
C40_ConnectPacketNeverPanics ==
    AttemptMade => ~attempt.panic

(***************************************************************************)
(* The order of poll and wait in NewSession                                *)
(***************************************************************************)

\* the polling interval of the flow: the server's, or 10 seconds
PollingInterval ==
    IF Initiate.session.interval = 0 THEN DefaultDelay ELSE Initiate.session.interval

\* C33 as stated: every pass of the polling loop waits one polling interval
\* before it calls the token endpoint, so that no PollAuthToken call is made
\* before one full interval has passed since the device code was issued.
C33_WaitBeforeEveryPoll ==
    Initiated =>
        \A i \in Indices("PollAuthToken") : log[i].at >= Initiate.at + PollingInterval

\* C33 amended: every pass of the polling loop calls the token endpoint first
\* and waits one polling interval after a forgiven answer: the first
\* PollAuthToken call is made as soon as the prompt returned, and every later
\* one a full interval after the call before it.
C33_WaitAfterPendingPoll ==
    Initiated =>
        \A i \in Indices("PollAuthToken") :
            log[i].at = Initiate.at
                + PollingInterval * Cardinality({ k \in Indices("PollAuthToken") : k < i })

\* a flow polled twice: at once, and one interval later
C33_Witness ==
    /\ Initiated
    /\ \E i, j \in Indices("PollAuthToken") :
         /\ log[i].at = Initiate.at
         /\ log[j].at = Initiate.at + PollingInterval

(***************************************************************************)
(* The registry after Subscribe and Unsubscribe calls                      *)
(***************************************************************************)

\* unregisterCallback has run for subscription id
Removed(id) == issued[id].unsubscribed \/ UnsubscribeInProgress(id)

\* the subscriptions registered under key k and not removed
Remaining(k) == { id \in Issued : issued[id].vin = k /\ ~Removed(id) }

\* no key of the registry maps to an empty callback set, and a key is in the
\* registry exactly when a subscription registered under it is not removed
RegistryHoldsRemaining ==
    /\ \A k \in DOMAIN subscriptions.byVIN : subscriptions.byVIN[k] # {}
    /\ \A k \in Keys :
         /\ k \in DOMAIN subscriptions.byVIN <=> Remaining(k) # {}
         /\ Under(subscriptions.byVIN, k) = Remaining(k)

\* thread t is in an Unsubscribe call of a subscription that an earlier
\* Unsubscribe call removed, and is about to push the registry
RepeatedUnsubscribe(t) ==
    /\ threads[t].pc = "Unsubscribe:update"
    /\ issued[threads[t].sub.id].unsubscribed

\* the errors the push of thread t can return
PushErrors(t) ==
    { updateSubscriptions(streaming, RegistryValue(subscriptions), gs, br).err :
        gs \in AuthenticatorResults, br \in BrokerResults }

\* C34 as stated: after any sequence of Subscribe and Unsubscribe calls no
\* key of the registry maps to an empty callback set; a key is present
\* exactly when a subscription registered under it has not been
\* unsubscribed; an Unsubscribe of a subscription that is already removed
\* changes nothing and returns no error.
C34_RepeatedUnsubscribeReturnsNoError ==
    /\ RegistryHoldsRemaining
    /\ \A t \in Threads :
         RepeatedUnsubscribe(t) =>
            /\ threads[t].dropped = {}
            /\ PushErrors(t) = {NoErr}

\* C34 amended: the same registry invariant; an Unsubscribe of a subscription
\* that is already removed leaves the registry as it is, sends nothing to the
\* broker, and returns no error unless a manager that has connected is
\* installed and its GetSession call fails, whose error it returns.
C34_RegistryKeysHaveCallbacks ==
    /\ RegistryHoldsRemaining
    /\ \A t \in Threads :
         RepeatedUnsubscribe(t) =>
            /\ threads[t].dropped = {}
            /\ \A gs \in AuthenticatorResults, br \in BrokerResults :
                 LET u == updateSubscriptions(streaming, RegistryValue(subscriptions), gs, br)
                 IN  /\ u.err \in {NoErr, gs.err}
                     /\ u.err # NoErr =>
                           (streaming # NilManager /\ managers[streaming].connectionManager)
                     /\ \A i \in 1..Len(u.effects) : u.effects[i].call # "Unsubscribe"

\* a second Unsubscribe of a subscription is about to push while another
\* subscription of the same key keeps the key in the registry
C34_Witness ==
    \E t \in Threads :
        /\ RepeatedUnsubscribe(t)
        /\ threads[t].sub.vin \in DOMAIN subscriptions.byVIN
        /\ streaming # NilManager

(***************************************************************************)
(* Subscribe calls that return an error                                    *)
(***************************************************************************)

\* the Subscribe call of thread t returned an error of the push to the manager
SubscribePushFailed(t) ==
    /\ threads[t].pc = "returned"
    /\ threads[t].call = "Subscribe"
    /\ threads[t].err # NoErr
    /\ ~NilArgument(threads[t])

\* C36: when Subscribe returns an error because the push of the registry to
\* the connected manager failed, the registry is as it was before the call:
\* the callback of the failed call is not registered, and no later message
\* reaches it.
C36_FailedSubscribeLeavesRegistry ==
    \A t \in Threads :
        SubscribePushFailed(t) => ~Registered(threads[t].sub.id)

(***************************************************************************)
(* StartEventStream calls that return an error, and restarts               *)
(***************************************************************************)

\* the StartEventStream call of thread t installed its manager and returned
\* the error of connect()
StartFailed(t) ==
    /\ StartWon(threads[t])
    /\ threads[t].pc = "returned"
    /\ threads[t].err # NoErr

\* C37: when StartEventStream returns the error of connect(), the manager it
\* installed is no longer installed, so that a later StartEventStream
\* installs a new manager and connects.
C37_FailedStartRemovesManager ==
    \A t \in Threads :
        StartFailed(t) => streaming # threads[t].m

\* the StartEventStream call of thread t has made its swap, and every manager
\* installed before it, one at least, was removed by a StopEventStream call
\* that has returned
Restart(t) ==
    /\ threads[t].call = "StartEventStream"
    /\ threads[t].cas \in {"won", "lost"}
    /\ \E m \in 1..(threads[t].m - 1) : managers[m].installed
    /\ \A m \in 1..(threads[t].m - 1) :
         managers[m].installed => (managers[m].removed /\ managers[m].stopCalls = 1)

\* C38: after a StopEventStream call that removed the installed manager has
\* returned, the next StartEventStream call installs a new manager whose
\* lifetime is not cancelled and whose snapshot is the current registry, and
\* calls connect() on it; a manager that was removed is never installed
\* again, and once its lifetime is cancelled no connection attempt is made
\* for it.
C38_StreamRestartable ==
    /\ \A m \in Managers :
         managers[m].removed => (streaming # m /\ managers[m].connectCalls <= 1)
    /\ AttemptMade => ~managers[attempt.manager].cancelled
    /\ \A t \in Callers :
         Restart(t) =>
            LET new == managers[threads[t].m] IN
            /\ StartWon(threads[t])
            /\ streaming = threads[t].m
            /\ new.installed /\ ~new.removed /\ ~new.cancelled /\ new.stopCalls = 0
            /\ new.subscriptions = RegistryValue(subscriptions)
            /\ Deref(new.subscriptions) = subscriptions.byVIN
            /\ new.connectCalls = IF threads[t].pc = "Start:connect" THEN 0 ELSE 1

\* a stream that was stopped is started again with a registered callback and
\* its connection is up
C38_Witness ==
    \E t \in Callers :
        /\ Restart(t)
        /\ threads[t].pc = "returned"
        /\ threads[t].err = NoErr
        /\ DOMAIN subscriptions.byVIN # {}
        /\ managers[threads[t].m].conn = "up"

(***************************************************************************)
(* Messages whose vehicle id is a wildcard key                             *)
(***************************************************************************)

\* C39: every registered callback is invoked at most once for an inbound
\* message, whatever vehicle id the message carries, "+" and "#" included.
C39_CallbackInvokedOncePerMessage ==
    Dispatched =>
        \A id \in Invoked : CopiesIn(id, dispatch.started) <= 1

(***************************************************************************)
(* GetSession calls of two goroutines                                      *)
(***************************************************************************)

\* the locals of the GetSession call of goroutine t
LocalsOf(t) == IF threads[t].running THEN Locals ELSE threads[t]

\* the calls of kind made in the trace l of one GetSession call
CallsIn(l, kind) == { i \in 1..Len(l) : l[i].ev = kind }

\* the GetSession call with trace l found no session in the store, or one
\* that had expired and that it could not refresh
FoundNoUsableSession(l) ==
    /\ Len(l) >= 1
    /\ l[1].ev = "Get"
    /\ \/ l[1].session = NilSession
       \/ \E i \in CallsIn(l, "RefreshToken") : l[i].err # NoErr

\* C35: GetSession is not serialized: a goroutine can run while a GetSession
\* call of another is in progress, and every call that finds no usable
\* session in the store runs a device flow of its own, with its own
\* InitiateAuthenticationSession call and, when a device code is issued, its
\* own prompt; two concurrent calls can so prompt twice for one login.
C35_EachCallRunsItsOwnFlow ==
    \A t \in Threads :
        LET c == LocalsOf(t) IN
        /\ ~threads[t].running => ENABLED Switch(t)
        /\ (FoundNoUsableSession(c.log) /\ c.pc \in {"polling", "returned"}) =>
              /\ Cardinality(CallsIn(c.log, "InitiateAuthenticationSession")) = 1
              /\ Cardinality(CallsIn(c.log, "PromptURI")) =
                    IF c.pc = "polling" \/ CallsIn(c.log, "PollAuthToken") # {}
                    THEN 1
                    ELSE Cardinality({ i \in CallsIn(c.log, "InitiateAuthenticationSession") :
                                         c.log[i].err = NoErr })
        /\ ~FoundNoUsableSession(c.log) =>
              CallsIn(c.log, "InitiateAuthenticationSession") = {}

\* both goroutines are polling, each after an InitiateAuthenticationSession
\* call and a prompt of its own
C35_Witness ==
    \A t \in Threads :
        /\ LocalsOf(t).pc = "polling"
        /\ FoundNoUsableSession(LocalsOf(t).log)
        /\ Cardinality(CallsIn(LocalsOf(t).log, "InitiateAuthenticationSession")) = 1
        /\ Cardinality(CallsIn(LocalsOf(t).log, "PromptURI")) = 1

====
